---- MODULE Spec2Model ----
(***************************************************************************)
(* A model of the dashboard pages of the repository: each page is a React  *)
(* component whose useState values are the record `ui`, whose handlers are  *)
(* async functions that suspend at every backend call, and whose backend    *)
(* tables are the record `db`.  One page is mounted in a behaviour          *)
(* (`mounted`); `tasks` holds the handler invocations that are suspended at *)
(* an await, each with the values its closure captured.  A backend call is  *)
(* one step: the backend applies it (or returns an error and applies        *)
(* nothing) and the handler runs on to its next await.  Pages that share    *)
(* the shape of their code share the definitions that model it; the         *)
(* differences between them are the branches on `mounted`.                  *)
(***************************************************************************)
EXTENDS Integers, Sequences, FiniteSets, Bags, TLC

VARIABLES
    mounted,    \* the page component that is mounted
    db,         \* the backend tables of that page
    ui,         \* the component's useState values
    tasks,      \* bag of suspended handler invocations
    hist        \* history of the behaviour, read only by the properties

vars == <<mounted, db, ui, tasks, hist>>

(***************************************************************************)
(* Bounds of the model.                                                    *)
(***************************************************************************)
MaxEvents == 2      \* form, filter and row-button events in a behaviour
MaxRemote == 1      \* writes by other clients in a behaviour
MaxRows == 2        \* rows of each table handed to the totals

NumMonths == 12     \* for(let m=1;m<=12;m++)

Months == {1, 2}    \* months the filter and the rows range over
Weeks == {1, 2}     \* weeks a form can name
Vals == {1}         \* planned / actual values typed into the form
RemoteVals == {2}   \* the value other clients write
Slots == {1, 2}     \* handler invocations suspended at the same time
Types == {"plan", "actual"}

(***************************************************************************)
(* Optional values: {} is undefined / null, {v} is the value v.            *)
(***************************************************************************)
Opt(S) == {{}} \cup {{v} : v \in S}
Val(o) == CHOOSE v \in o : TRUE
\* Number(x || 0), x ?? 0
NumberOrZero(o) == IF o = {} THEN 0 ELSE Val(o)

(***************************************************************************)
(* The backend client resolves every call with {data, error}: a call that  *)
(* fails has data null and changes nothing.                                *)
(***************************************************************************)
Outcomes == {"ok", "error"}

Response(outcome, rows) ==
    IF outcome = "ok" THEN [error |-> FALSE, isNull |-> FALSE, data |-> rows]
    ELSE [error |-> TRUE, isNull |-> TRUE, data |-> <<>>]
\* data || []
DataOrEmpty(res) == IF res.isNull THEN <<>> ELSE res.data

\* .order(col): the rows of S by ascending column; .select() with no order
\* is OrderBy on a column all rows agree on
RECURSIVE OrderBy(_, _)
OrderBy(S, col) ==
    IF S = {} THEN <<>>
    ELSE LET least == {x \in S : \A y \in S : x[col] <= y[col]}
             r == CHOOSE x \in least : TRUE
         IN <<r>> \o OrderBy(S \ {r}, col)

\* Array.prototype.find: the first element that satisfies the test, or undefined
Find(seq, col, v) ==
    LET hits == {i \in DOMAIN seq : seq[i][col] = v}
    IN IF hits = {} THEN {}
       ELSE {seq[CHOOSE i \in hits : \A j \in hits : i <= j]}
\* Array.prototype.some
Some(seq, col, v) == \E i \in DOMAIN seq : seq[i][col] = v

\* list.reduce((s,v)=>s+v,0)
RECURSIVE SumList(_)
SumList(list) == IF list = <<>> THEN 0 ELSE Head(list) + SumList(Tail(list))

AddTask(t) == tasks (+) SetToBag({t})
DropTask(t) == tasks (-) SetToBag({t})
ReplaceTask(t, u) == (tasks (-) SetToBag({t})) (+) SetToBag({u})
Inflight == BagToSet(tasks)
Room == BagCardinality(tasks) < Cardinality(Slots)
CanAct == hist.events < MaxEvents
\* hist.sub tells of the submit that returned last, until the next user event
\* or change by another client; its field `turn` tells two returns that
\* follow one another apart
Turn(h) == IF \E s \in h.sub : s.turn = 0 THEN 1 ELSE 0
Tick == [hist EXCEPT !.events = @ + 1, !.sub = {}]

(***************************************************************************)
(* The plan / actual tables of the concrete, manpower and cashflow pages.  *)
(***************************************************************************)
\* the conflict target of the upserts: "year,month,week,tower" on the weekly
\* tables, "year,month" on the cashflow tables
KeyOf(r) ==
    IF "week" \in DOMAIN r THEN <<r.year, r.month, r.week, r.tower>>
    ELSE <<r.year, r.month>>

\* supabase.from("concrete_plan"), from("manpower_actual"), ...
TableOf(type) == mounted \o "_" \o type

\* .upsert(row, { onConflict }): the row replaces the row with the same
\* conflict key, or is inserted when there is none
UpsertLosesUpdate(table, row) ==
    IF \E r \in table : KeyOf(r) = KeyOf(row) THEN table
    ELSE table \cup {row}
Upsert(table, row) ==
    {r \in table : KeyOf(r) # KeyOf(row)} \cup {row}

\* the row with key `key` that carries value v in the column of the table
RowOf(key, type, v) ==
    LET cols == IF Len(key) = 4
                THEN [year |-> key[1], month |-> key[2], week |-> key[3],
                      tower |-> key[4]]
                ELSE [year |-> key[1], month |-> key[2]]
    IN IF type = "plan" THEN cols @@ [planned |-> v] ELSE cols @@ [actual |-> v]

\* history of an applied upsert: the row last written to the key, whether a
\* row with another value was replaced, and whether a submit made with no
\* editing target replaced a row that was there
Written(row, type, editing, table) ==
    [hist EXCEPT !.last[type][KeyOf(row)] = {row},
                 !.changed = @ \/ (\E r \in table : KeyOf(r) = KeyOf(row) /\ r # row),
                 !.silent = @ \/ (editing = {}
                                  /\ \E r \in table : KeyOf(r) = KeyOf(row))]

\* the postgres_changes subscriptions of the page, made by the realtime effect:
\* ui.channel.closure holds the values the callback's fetchData captured when
\* the effect ran (no subscription: empty), ui.channel.pending counts the
\* notifications the backend has sent to it that have not called back yet.
\* A change of a row of `year` is sent when it passes filter: `year=eq.${year}`
Notified(u, year) ==
    IF \E c \in u.channel.closure : c.year = year
    THEN [u EXCEPT !.channel.pending = @ + 1]
    ELSE u

\* history: one more change of a row of the selected year whose notification
\* has not re-run the loader
Owing(h, year) ==
    IF year = ui.year THEN [h EXCEPT !.owed = @ + 1] ELSE h

\* another client's submit reaches the backend
RemoteUpsert(type, key, v) ==
    /\ mounted \in {"concrete", "manpower", "cashflow"}
    /\ Len(key) = (IF mounted = "cashflow" THEN 2 ELSE 4)
    /\ hist.remote < MaxRemote
    /\ db' = [db EXCEPT ![TableOf(type)] = Upsert(@, RowOf(key, type, {v}))]
    /\ hist' = [Owing(hist, key[1]) EXCEPT !.remote = @ + 1, !.sub = {},
                            !.last[type][key] = {RowOf(key, type, {v})},
                            !.changed = @ \/ (\E r \in db[TableOf(type)] :
                                KeyOf(r) = key /\ r # RowOf(key, type, {v}))]
    /\ ui' = Notified(ui, key[1])
    /\ UNCHANGED <<mounted, tasks>>

\* another client deletes the row of a key
RemoteDelete(type, key) ==
    /\ mounted \in {"concrete", "manpower", "cashflow"}
    /\ Len(key) = (IF mounted = "cashflow" THEN 2 ELSE 4)
    /\ hist.remote < MaxRemote
    /\ \E r \in db[TableOf(type)] : KeyOf(r) = key
    /\ db' = [db EXCEPT ![TableOf(type)] = {r \in @ : KeyOf(r) # key}]
    /\ hist' = [Owing(hist, key[1]) EXCEPT !.remote = @ + 1, !.sub = {},
                                           !.last[type][key] = {}]
    /\ ui' = Notified(ui, key[1])
    /\ UNCHANGED <<mounted, tasks>>

\* handleSubmit after a write that returned an error: a toast, and
\* setIsSubmitting(false) on the pages that have the flag
FailedWriteClearsEditing(u) ==
    [f \in DOMAIN u |->
        IF f = "isSubmitting" THEN FALSE
        ELSE IF f \in {"editing", "editingWeek"} THEN {}
        ELSE u[f]]
AfterFailedWrite(u) == [u EXCEPT !.isSubmitting = FALSE]

\* the stages of handleSubmit that are suspended at a backend call, in order
SubmitStages == <<"checkPlan", "checkActual", "upsertPlan", "upsertActual">>
StageNeeds(t, stage) ==
    CASE stage = "checkPlan" -> t.editing = {} /\ t.form.planned # {}
      [] stage = "checkActual" -> t.editing = {} /\ t.form.actual # {}
      [] stage = "upsertPlan" -> t.form.planned # {}
      [] stage = "upsertActual" -> t.form.actual # {}
\* the first stage after position `from` whose condition holds, or "done"
NextStageLast(t, from) ==
    LET later == {i \in DOMAIN SubmitStages :
                    i > from /\ StageNeeds(t, SubmitStages[i])}
    IN IF later = {} THEN "done"
       ELSE SubmitStages[CHOOSE i \in later : \A j \in later : i >= j]
NextStage(t, from) ==
    LET later == {i \in DOMAIN SubmitStages :
                    i > from /\ StageNeeds(t, SubmitStages[i])}
    IN IF later = {} THEN "done"
       ELSE SubmitStages[CHOOSE i \in later : \A j \in later : i <= j]
StageIndex(stage) == CHOOSE i \in DOMAIN SubmitStages : SubmitStages[i] = stage
StageOf(kind, type) == kind \o (IF type = "plan" THEN "Plan" ELSE "Actual")

(***************************************************************************)
(* ConcretePage (src/app/dashboard/concrete/page.tsx) and ManpowerPage     *)
(* (src/app/dashboard/manpower/page.tsx): the weekly pages.                *)
(***************************************************************************)
Weekly == {"concrete", "manpower"}
WeeklyKeys == {2025} \X Months \X Weeks \X {"T1"}

\* .eq("year", y).eq("month", m).eq("tower", t).order("week")
SelectMonth(table, y, m, t) ==
    OrderBy({r \in table : r.year = y /\ r.month = m /\ r.tower = t}, "week")
\* .eq("year", y).eq("tower", t)
SelectYear(table, y, t) ==
    OrderBy({r \in table : r.year = y /\ r.tower = t}, "year")
\* .eq("year", y).eq("month", m).eq("week", w).eq("tower", t).limit(1)
SelectWeek(table, y, m, w, t) ==
    LET all == SelectMonth({r \in table : r.week = w}, y, m, t)
    IN IF all = <<>> THEN <<>> ELSE <<Head(all)>>

\* concrete: monthlyTotals[p.month].planned += Number(p.planned || 0), and the
\* same for actual; months with no row have no entry
MonthlyTotals(planYear, actYear) ==
    LET Planned(m) == {i \in DOMAIN planYear : planYear[i].month = m}
        Actual(m) == {i \in DOMAIN actYear : actYear[i].month = m}
        SumOf(rows, idx, col) ==
            SumList([k \in 1..Cardinality(idx) |->
                NumberOrZero(rows[CHOOSE i \in idx :
                    Cardinality({j \in idx : j < i}) = k - 1][col])])
    IN [m \in {m \in 1..NumMonths : Planned(m) \cup Actual(m) # {}} |->
            [planned |-> SumOf(planYear, Planned(m), "planned"),
             actual |-> SumOf(actYear, Actual(m), "actual")]]

\* monthlyTotals[m] || {planned:0, actual:0}
TotalsOf(mt, m) == IF m \in DOMAIN mt THEN mt[m] ELSE [planned |-> 0, actual |-> 0]

\* the loop with the running sums forgotten: each entry holds the month's own
\* totals in its cumulative fields
RECURSIVE TotalsLoopNoCarry(_, _, _, _)
TotalsLoopNoCarry(mt, m, cumPlan, cumAct) ==
    IF m > NumMonths THEN <<>>
    ELSE <<[month |-> m, monthlyPlanned |-> TotalsOf(mt, m).planned,
            monthlyActual |-> TotalsOf(mt, m).actual,
            planned |-> TotalsOf(mt, m).planned, actual |-> TotalsOf(mt, m).actual]>>
         \o TotalsLoopNoCarry(mt, m + 1, cumPlan, cumAct)

\* for(let m=1;m<=12;m++){ cumPlan += mt.planned; cumAct += mt.actual; push }
RECURSIVE TotalsLoop(_, _, _, _)
TotalsLoop(mt, m, cumPlan, cumAct) ==
    IF m > NumMonths THEN <<>>
    ELSE LET cur == TotalsOf(mt, m)
             cp == cumPlan + cur.planned
             ca == cumAct + cur.actual
         IN <<[month |-> m, monthlyPlanned |-> cur.planned,
               monthlyActual |-> cur.actual, planned |-> cp, actual |-> ca]>>
            \o TotalsLoop(mt, m + 1, cp, ca)

TotalsArr(planYear, actYear) ==
    TotalsLoop(MonthlyTotals(planYear, actYear), 1, 0, 0)

\* manpower: monthly[p.month].planned.push(Number(p.planned||0)), and the same
\* for actual
ManpowerMonthly(planYear, actYear) ==
    LET Pick(rows, m, col) ==
            LET hits == SelectSeq(rows, LAMBDA r : r.month = m)
            IN [i \in DOMAIN hits |-> NumberOrZero(hits[i][col])]
    IN [m \in {m \in 1..NumMonths :
                \/ \E i \in DOMAIN planYear : planYear[i].month = m
                \/ \E i \in DOMAIN actYear : actYear[i].month = m} |->
            [planned |-> Pick(planYear, m, "planned"),
             actual |-> Pick(actYear, m, "actual")]]

\* list.length ? sum/list.length : 0, kept as the fraction <<sum, length>>
Average(list) == IF Len(list) > 0 THEN <<SumList(list), Len(list)>> ELSE <<0, 1>>

ManpowerTotalsArr(monthly) ==
    [m \in 1..NumMonths |->
        LET mt == IF m \in DOMAIN monthly THEN monthly[m]
                  ELSE [planned |-> <<>>, actual |-> <<>>]
        IN [month |-> m, planned |-> SumList(mt.planned), actual |-> SumList(mt.actual),
            avgPlanned |-> Average(mt.planned), avgActual |-> Average(mt.actual)]]

\* useState<...>({week:1}); the manpower form also carries a tower that no
\* handler reads
WeeklyInitForm == [week |-> 1, planned |-> {}, actual |-> {}]

FetchTask(y, m, t) ==
    [kind |-> "fetchData", pc |-> "monthly", year |-> y, month |-> m, tower |-> t]

\* handleSubmit runs on from stage `from` of invocation t (removed from the bag
\* `rest`): either it suspends at the next backend call or it reaches
\* toast.success; setForm({week:1}); setEditingWeek(null); fetchData(), and on
\* the manpower page finally setIsSubmitting(false)
ContinueWithoutReload(t, from, rest, uiNow) ==
    LET next == NextStage(t, from)
    IN IF next = "done"
       THEN /\ ui' = [uiNow EXCEPT !.form = WeeklyInitForm, !.editingWeek = {},
                                   !.isSubmitting = FALSE]
            /\ tasks' = rest
       ELSE /\ ui' = [uiNow EXCEPT !.isSubmitting = (mounted = "manpower")]
            /\ tasks' = rest (+) SetToBag({[t EXCEPT !.pc = next]})
WeeklyContinue(t, from, rest, uiNow) ==
    LET next == NextStage(t, from)
    IN IF next = "done"
       THEN /\ ui' = [uiNow EXCEPT !.form = WeeklyInitForm, !.editingWeek = {},
                                   !.loading = TRUE, !.isSubmitting = FALSE]
            /\ tasks' = rest (+) SetToBag({FetchTask(t.year, t.month, t.tower)})
       ELSE /\ ui' = [uiNow EXCEPT !.isSubmitting = (mounted = "manpower")]
            /\ tasks' = rest (+) SetToBag({[t EXCEPT !.pc = next]})

\* useEffect(() => { fetchData() }, [year, month, tower]) after setMonth
WeeklySetMonth(m) ==
    /\ mounted \in Weekly /\ CanAct /\ Room /\ ui.duplicate = {}
    /\ m # ui.month
    /\ ui' = [ui EXCEPT !.month = m, !.loading = TRUE]
    /\ tasks' = AddTask(FetchTask(ui.year, m, ui.tower))
    /\ hist' = Tick
    /\ UNCHANGED <<mounted, db>>

\* the inputs of the form: the week input is disabled={!!editingWeek}, and on
\* the manpower page every input is disabled={isSubmitting}
WeeklySetField(field, v) ==
    /\ mounted \in Weekly /\ CanAct /\ ui.duplicate = {}
    /\ ~ui.isSubmitting
    /\ field = "week" => ui.editingWeek = {}
    /\ ui.form[field] # v
    /\ ui' = [ui EXCEPT !.form[field] = v]
    /\ hist' = Tick
    /\ UNCHANGED <<mounted, db, tasks>>

\* handleEdit: plan?.planned, act?.actual of the loaded rows of that week
WeeklyEditForm(week) ==
    LET plan == Find(ui.planRows, "week", week)
        act == Find(ui.actualRows, "week", week)
    IN [week |-> week,
        planned |-> IF plan = {} THEN {} ELSE Val(plan).planned,
        actual |-> IF act = {} THEN {} ELSE Val(act).actual]

WeeklyHandleEdit(week) ==
    /\ mounted \in Weekly /\ CanAct /\ ui.duplicate = {}
    /\ ui' = [ui EXCEPT !.form = WeeklyEditForm(week), !.editingWeek = {week}]
    /\ hist' = Tick
    /\ UNCHANGED <<mounted, db, tasks>>

\* the Cancel button of the form: setEditingWeek(null); setForm({week:1})
WeeklyCancelEdit ==
    /\ mounted \in Weekly /\ CanAct /\ ui.duplicate = {}
    /\ ui.editingWeek # {} /\ ~ui.isSubmitting
    /\ ui' = [ui EXCEPT !.form = WeeklyInitForm, !.editingWeek = {}]
    /\ hist' = Tick
    /\ UNCHANGED <<mounted, db, tasks>>

\* the buttons of the duplicate dialog answer a submit and are not counted as
\* events.  "Edit Existing Record": handleEdit(week); the dialog closes
WeeklyModalEdit ==
    /\ mounted \in Weekly
    /\ ui.duplicate # {}
    /\ ui' = [ui EXCEPT !.form = WeeklyEditForm(Val(ui.duplicate).week),
                        !.editingWeek = {Val(ui.duplicate).week},
                        !.duplicate = {}]
    /\ UNCHANGED <<mounted, db, tasks, hist>>

WeeklyModalCancel ==
    /\ mounted \in Weekly
    /\ ui.duplicate # {}
    /\ ui' = [ui EXCEPT !.duplicate = {}]
    /\ UNCHANGED <<mounted, db, tasks, hist>>

\* the types for which the loaded rows hold no row of that week:
\* planRows.some(r=>r.week===form.week), actualRows.some(...)
LoadedClear(planRows, actualRows, col, v) ==
    {type \in Types : ~Some(IF type = "plan" THEN planRows ELSE actualRows, col, v)}

\* history of a handleSubmit invocation: it has left its try block, after a
\* write that returned an error (ok false) or at toast.success (ok true)
SubmitReturned(h, ok) == [h EXCEPT !.sub = {[ok |-> ok, turn |-> Turn(h)]}]

\* handleSubmit up to its first backend call.  The concrete page asks the
\* backend whether the row exists; the manpower page looks in its loaded rows
WeeklyHandleSubmit ==
    /\ mounted \in Weekly /\ CanAct /\ Room /\ ui.duplicate = {}
    /\ ~ui.isSubmitting
    /\ LET clear == LoadedClear(ui.planRows, ui.actualRows, "week", ui.form.week)
           t == [kind |-> "handleSubmit", pc |-> "start", year |-> ui.year,
                 month |-> ui.month, tower |-> ui.tower, form |-> ui.form,
                 editing |-> ui.editingWeek,
                 clear |-> IF mounted = "manpower" THEN clear ELSE {}, held |-> {}]
       IN IF mounted = "manpower" /\ ui.editingWeek = {} /\ clear # Types
          THEN /\ ui' = [ui EXCEPT !.isSubmitting = FALSE,
                              !.duplicate = {[week |-> ui.form.week, type |-> "week"]}]
               /\ UNCHANGED tasks
          ELSE WeeklyContinue(t, IF mounted = "manpower" THEN 2 ELSE 0, tasks, ui)
    /\ hist' = IF ui.form.planned = {} /\ ui.form.actual = {}
                  /\ ~(mounted = "manpower" /\ ui.editingWeek = {}
                        /\ LoadedClear(ui.planRows, ui.actualRows, "week",
                                       ui.form.week) # Types)
               THEN SubmitReturned(Tick, TRUE)
               ELSE Tick
    /\ UNCHANGED <<mounted, db>>

\* concrete: the existence check of one table returns: a row found opens the
\* modal and returns, otherwise the handler runs on.  t.clear are the types
\* whose check found no row, t.held the types whose row the backend held when
\* the check ran
ConcreteCheckIgnoresHit(t, type, outcome) ==
    LET res == Response(outcome, SelectWeek(db[TableOf(type)], t.year, t.month,
                                            t.form.week, t.tower))
        found == ~res.isNull /\ Len(res.data) > 0
    IN WeeklyContinue([t EXCEPT !.clear = IF found THEN @ ELSE @ \cup {type}],
                      StageIndex(t.pc), DropTask(t), ui)
ConcreteCheckReturns(t, type, outcome) ==
    LET table == db[TableOf(type)]
        res == Response(outcome, SelectWeek(table, t.year, t.month, t.form.week, t.tower))
        found == ~res.isNull /\ Len(res.data) > 0
        rowHeld == \E r \in table : KeyOf(r) = <<t.year, t.month, t.form.week, t.tower>>
        u == [t EXCEPT !.clear = IF found THEN @ ELSE @ \cup {type},
                       !.held = IF rowHeld THEN @ \cup {type} ELSE @]
    IN IF found
       THEN /\ ui' = [ui EXCEPT !.duplicate = {[week |-> t.form.week, type |-> type]}]
            /\ tasks' = DropTask(t)
       ELSE WeeklyContinue(u, StageIndex(t.pc), DropTask(t), ui)

ConcreteCheck(t, type) ==
    /\ mounted = "concrete"
    /\ t.kind = "handleSubmit" /\ t.pc = StageOf("check", type)
    /\ \E outcome \in Outcomes : ConcreteCheckReturns(t, type, outcome)
    /\ UNCHANGED <<mounted, db, hist>>

\* the upsert of one table returns: if(error) throw error, caught by the
\* handler (manpower: finally setIsSubmitting(false))
WeeklyUpsert(t, type) ==
    /\ mounted \in Weekly
    /\ t.kind = "handleSubmit" /\ t.pc = StageOf("upsert", type)
    /\ \E outcome \in Outcomes :
        LET row == RowOf(<<t.year, t.month, t.form.week, t.tower>>, type,
                         t.form[IF type = "plan" THEN "planned" ELSE "actual"])
        IN IF outcome = "error"
           THEN /\ tasks' = DropTask(t)
                /\ ui' = AfterFailedWrite(ui)
                /\ hist' = SubmitReturned(hist, FALSE)
                /\ UNCHANGED db
           ELSE /\ db' = [db EXCEPT ![TableOf(type)] = Upsert(@, row)]
                /\ hist' = LET h == Owing(Written(row, type, t.editing,
                                                  db[TableOf(type)]), t.year)
                           IN IF NextStage(t, StageIndex(t.pc)) = "done"
                              THEN SubmitReturned(h, TRUE) ELSE h
                /\ WeeklyContinue(t, StageIndex(t.pc), DropTask(t),
                                  Notified(ui, t.year))
    /\ UNCHANGED mounted

\* a notification reaches the callback of the realtime effect,
\* async () => { await fetchData() }: the loader runs with the values the
\* effect's closure holds
WeeklyRealtime ==
    /\ mounted \in Weekly /\ Room
    /\ ui.channel.pending > 0
    /\ \E c \in ui.channel.closure :
         tasks' = AddTask(FetchTask(c.year, c.month, c.tower))
    /\ ui' = [ui EXCEPT !.channel.pending = @ - 1, !.loading = TRUE]
    /\ hist' = [hist EXCEPT !.owed = @ - 1]
    /\ UNCHANGED <<mounted, db>>

\* fetchData: the two reads of the selected month return;
\* setPlanRows(planData || []); setActualRows(actData || []).  hist.lost: a
\* read that returned an error changed the row set it feeds, which held the
\* rows the backend has for the query; hist.odd: a read that returned an error
\* left a row set that is not empty
WeeklyFetchMonthly(t) ==
    /\ mounted \in Weekly
    /\ t.kind = "fetchData" /\ t.pc = "monthly"
    /\ \E o1, o2 \in Outcomes :
        LET planData == Response(o1, SelectMonth(db[TableOf("plan")],
                                                 t.year, t.month, t.tower))
            actData == Response(o2, SelectMonth(db[TableOf("actual")],
                                                t.year, t.month, t.tower))
        IN /\ ui' = [ui EXCEPT !.planRows = DataOrEmpty(planData),
                               !.actualRows = DataOrEmpty(actData)]
           /\ hist' = [hist EXCEPT !.lost = @
                \/ (planData.error /\ ui'.planRows # ui.planRows
                        /\ ui.planRows = SelectMonth(db[TableOf("plan")],
                                                     t.year, t.month, t.tower))
                \/ (actData.error /\ ui'.actualRows # ui.actualRows
                        /\ ui.actualRows = SelectMonth(db[TableOf("actual")],
                                                       t.year, t.month, t.tower)),
                                   !.odd = @
                \/ (planData.error /\ ui'.planRows # <<>>)
                \/ (actData.error /\ ui'.actualRows # <<>>)]
    /\ tasks' = ReplaceTask(t, [t EXCEPT !.pc = "yearly"])
    /\ UNCHANGED <<mounted, db>>

\* fetchData: the two reads of the year return; setAllTotals(totalsArr)
\* (manpower: setMonthlyTotals(monthly) too); finally setLoading(false).
\* hist.odd: totals other than 0 came out of a yearly read that returned an error
WeeklyFetchYearly(t) ==
    /\ mounted \in Weekly
    /\ t.kind = "fetchData" /\ t.pc = "yearly"
    /\ \E o3, o4 \in Outcomes :
        LET planYear == DataOrEmpty(Response(o3,
                            SelectYear(db[TableOf("plan")], t.year, t.tower)))
            actYear == DataOrEmpty(Response(o4,
                            SelectYear(db[TableOf("actual")], t.year, t.tower)))
        IN /\ ui' = IF mounted = "concrete"
                 THEN [ui EXCEPT !.allTotals = TotalsArr(planYear, actYear),
                                 !.loading = FALSE]
                 ELSE [ui EXCEPT !.monthlyTotals = ManpowerMonthly(planYear, actYear),
                                 !.allTotals = ManpowerTotalsArr(
                                                 ManpowerMonthly(planYear, actYear)),
                                 !.loading = FALSE]
           /\ hist' = [hist EXCEPT !.odd = @
                \/ (mounted = "concrete" /\ o3 = "error"
                        /\ \E i \in DOMAIN ui'.allTotals : ui'.allTotals[i].planned # 0)
                \/ (mounted = "concrete" /\ o4 = "error"
                        /\ \E i \in DOMAIN ui'.allTotals : ui'.allTotals[i].actual # 0)]
    /\ tasks' = DropTask(t)
    /\ UNCHANGED <<mounted, db>>

\* the realtime effect of the concrete page, useEffect(..., [year, tower]):
\* its callback calls the fetchData of the render in which the effect ran.
\* The manpower page has no realtime effect
WeeklyChannel(y, m, t) ==
    IF mounted = "concrete" THEN {[year |-> y, month |-> m, tower |-> t]} ELSE {}

\* the state after the first render and its effects, with `form` in the
\* inputs: fetchData() is in flight
WeeklyStart(form) ==
    /\ mounted \in Weekly
    /\ db = [t \in {TableOf(type) : type \in Types} |-> {}]
    /\ ui = [year |-> 2025, month |-> 1, tower |-> "T1",
             planRows |-> <<>>, actualRows |-> <<>>, allTotals |-> <<>>,
             monthlyTotals |-> <<>>, form |-> form, editingWeek |-> {},
             loading |-> TRUE, isSubmitting |-> FALSE, duplicate |-> {},
             channel |-> [closure |-> WeeklyChannel(2025, 1, "T1"), pending |-> 0]]
    /\ tasks = SetToBag({FetchTask(2025, 1, "T1")})
    /\ hist = [events |-> 0, remote |-> 0, silent |-> FALSE, changed |-> FALSE,
               lost |-> FALSE, odd |-> FALSE, owed |-> 0, sub |-> {},
               last |-> [type \in Types |-> [k \in WeeklyKeys |-> {}]]]

WeeklyInit == WeeklyStart(WeeklyInitForm)

\* the concrete page when the user has typed a planned and an actual value
\* for week 1 before the first loader run has returned
ConcreteFilledInit ==
    /\ mounted = "concrete"
    /\ \E v \in Vals : WeeklyStart([week |-> 1, planned |-> {v}, actual |-> {v}])

\* the steps of the concrete page when the user only submits and answers the
\* duplicate modal
ConcreteSubmitNext ==
    \/ WeeklyModalEdit
    \/ WeeklyModalCancel
    \/ WeeklyHandleSubmit
    \/ \E t \in Inflight, type \in Types : ConcreteCheck(t, type)
    \/ \E t \in Inflight, type \in Types : WeeklyUpsert(t, type)
    \/ \E t \in Inflight : WeeklyFetchMonthly(t)
    \/ \E t \in Inflight : WeeklyFetchYearly(t)
    \/ WeeklyRealtime

WeeklyNext ==
    \/ \E m \in Months : WeeklySetMonth(m)
    \/ \E w \in Weeks : WeeklySetField("week", w)
    \/ \E v \in Vals : WeeklySetField("planned", {v})
    \/ \E v \in Vals : WeeklySetField("actual", {v})
    \/ \E w \in Weeks : WeeklyHandleEdit(w)
    \/ WeeklyCancelEdit
    \/ WeeklyModalEdit
    \/ WeeklyModalCancel
    \/ WeeklyHandleSubmit
    \/ \E t \in Inflight, type \in Types : ConcreteCheck(t, type)
    \/ \E t \in Inflight, type \in Types : WeeklyUpsert(t, type)
    \/ \E t \in Inflight : WeeklyFetchMonthly(t)
    \/ \E t \in Inflight : WeeklyFetchYearly(t)
    \/ WeeklyRealtime
    \/ \E v \in RemoteVals : RemoteUpsert("plan", <<2025, 1, 1, "T1">>, v)
    \/ RemoteDelete("actual", <<2025, 1, 1, "T1">>)

(***************************************************************************)
(* CashflowPage (src/app/dashboard/cashflow/page.tsx)                      *)
(***************************************************************************)
CashflowYears == {2025, 2026}

\* .eq("year", currentYear).order("month")
CashflowSelect(table, y) == OrderBy({r \in table : r.year = y}, "month")

\* rowData: Array.from({ length: 12 }, ...) with
\* cumulativePlanned += plannedVal ?? 0; cumulativeActual += actualVal ?? 0
RECURSIVE RowDataFrom(_, _, _, _, _)
RowDataFrom(planRows, actualRows, month, cumulativePlanned, cumulativeActual) ==
    IF month > NumMonths THEN <<>>
    ELSE LET plan == Find(planRows, "month", month)
             actual == Find(actualRows, "month", month)
             plannedVal == IF plan = {} THEN {} ELSE Val(plan).planned
             actualVal == IF actual = {} THEN {} ELSE Val(actual).actual
             cp == cumulativePlanned + NumberOrZero(plannedVal)
             ca == cumulativeActual + NumberOrZero(actualVal)
         IN <<[month |-> month, planned |-> plannedVal, cumulativePlanned |-> cp,
               actual |-> actualVal, cumulativeActual |-> ca]>>
            \o RowDataFrom(planRows, actualRows, month + 1, cp, ca)

RowData(planRows, actualRows) == RowDataFrom(planRows, actualRows, 1, 0, 0)

\* handleSubmit runs on after stage `from`: the next upsert, or
\* setEditingMonth(null); setForm({ month: form.month }); fetchData(year)
CashflowContinue(t, from, rest, uiNow) ==
    LET next == NextStage(t, from)
    IN IF next = "done"
       THEN /\ ui' = [uiNow EXCEPT !.form = [month |-> t.form.month, planned |-> {},
                                             actual |-> {}],
                                   !.editingMonth = {}, !.loading = TRUE]
            /\ tasks' = rest (+) SetToBag({[kind |-> "fetchData", pc |-> "plan",
                                            year |-> t.year]})
       ELSE /\ ui' = uiNow
            /\ tasks' = rest (+) SetToBag({[t EXCEPT !.pc = next]})

\* useEffect(() => { fetchData(year) }, [year]) after setYear; the realtime
\* effect, on [year] too, unsubscribes its two channels and subscribes again
CashflowSetYear(y) ==
    /\ mounted = "cashflow" /\ CanAct /\ Room /\ ui.duplicateMonth = {}
    /\ y # ui.year
    /\ ui' = [ui EXCEPT !.year = y, !.loading = TRUE,
                        !.channel = [closure |-> {[year |-> y]}, pending |-> 0]]
    /\ tasks' = AddTask([kind |-> "fetchData", pc |-> "plan", year |-> y])
    /\ hist' = [Tick EXCEPT !.owed = 0]
    /\ UNCHANGED <<mounted, db>>

\* the inputs of the form: the month input is disabled={!!editingMonth}; an
\* emptied number input gives undefined
CashflowSetField(field, v) ==
    /\ mounted = "cashflow" /\ CanAct /\ ui.duplicateMonth = {}
    /\ field = "month" => ui.editingMonth = {}
    /\ ui.form[field] # v
    /\ ui' = [ui EXCEPT !.form[field] = v]
    /\ hist' = Tick
    /\ UNCHANGED <<mounted, db, tasks>>

\* handleEdit: plan?.planned ?? undefined, actual?.actual ?? undefined
CashflowEditForm(month) ==
    LET plan == Find(ui.planRows, "month", month)
        actual == Find(ui.actualRows, "month", month)
    IN [month |-> month,
        planned |-> IF plan = {} THEN {} ELSE Val(plan).planned,
        actual |-> IF actual = {} THEN {} ELSE Val(actual).actual]

CashflowHandleEdit(month) ==
    /\ mounted = "cashflow" /\ CanAct /\ ui.duplicateMonth = {}
    /\ ui' = [ui EXCEPT !.form = CashflowEditForm(month), !.editingMonth = {month},
                        !.duplicateMonth = {}]
    /\ hist' = Tick
    /\ UNCHANGED <<mounted, db, tasks>>

\* the Cancel button: setEditingMonth(null); setForm({ month: form.month })
CashflowCancelEdit ==
    /\ mounted = "cashflow" /\ CanAct /\ ui.duplicateMonth = {}
    /\ ui.editingMonth # {}
    /\ ui' = [ui EXCEPT !.form = [month |-> ui.form.month, planned |-> {}, actual |-> {}],
                        !.editingMonth = {}]
    /\ hist' = Tick
    /\ UNCHANGED <<mounted, db, tasks>>

\* the buttons of the duplicate dialog
CashflowModalEdit ==
    /\ mounted = "cashflow"
    /\ ui.duplicateMonth # {}
    /\ ui' = [ui EXCEPT !.form = CashflowEditForm(Val(ui.duplicateMonth)),
                        !.editingMonth = ui.duplicateMonth, !.duplicateMonth = {}]
    /\ UNCHANGED <<mounted, db, tasks, hist>>

CashflowModalCancel ==
    /\ mounted = "cashflow"
    /\ ui.duplicateMonth # {}
    /\ ui' = [ui EXCEPT !.duplicateMonth = {}]
    /\ UNCHANGED <<mounted, db, tasks, hist>>

\* handleSubmit up to its first backend call; the button is disabled={loading}
CashflowHandleSubmit ==
    /\ mounted = "cashflow" /\ CanAct /\ Room /\ ui.duplicateMonth = {}
    /\ ~ui.loading
    /\ LET clear == LoadedClear(ui.planRows, ui.actualRows, "month", ui.form.month)
           t == [kind |-> "handleSubmit", pc |-> "start", year |-> ui.year,
                 form |-> ui.form, editing |-> ui.editingMonth, clear |-> clear]
       IN IF ui.editingMonth = {} /\ clear # Types
          THEN /\ ui' = [ui EXCEPT !.duplicateMonth = {ui.form.month}]
               /\ UNCHANGED tasks
          ELSE CashflowContinue(t, 2, tasks, ui)
    /\ hist' = Tick
    /\ UNCHANGED <<mounted, db>>

\* an upsert returns: { year, month: form.month, planned: form.planned ?? null }
CashflowUpsert(t, type) ==
    /\ mounted = "cashflow"
    /\ t.kind = "handleSubmit" /\ t.pc = StageOf("upsert", type)
    /\ \E outcome \in Outcomes :
        LET row == RowOf(<<t.year, t.form.month>>, type,
                         t.form[IF type = "plan" THEN "planned" ELSE "actual"])
        IN IF outcome = "error"
           THEN /\ tasks' = DropTask(t)
                /\ UNCHANGED <<db, ui, hist>>
           ELSE /\ db' = [db EXCEPT ![TableOf(type)] = Upsert(@, row)]
                /\ hist' = Owing(Written(row, type, t.editing, db[TableOf(type)]),
                                 t.year)
                /\ CashflowContinue(t, StageIndex(t.pc), DropTask(t),
                                    Notified(ui, t.year))
    /\ UNCHANGED mounted

\* a notification reaches the callback of 'cf-plan-ch' or 'cf-actual-ch',
\* async () => { await fetchData(year) }
CashflowRealtime ==
    /\ mounted = "cashflow" /\ Room
    /\ ui.channel.pending > 0
    /\ \E c \in ui.channel.closure :
         tasks' = AddTask([kind |-> "fetchData", pc |-> "plan", year |-> c.year])
    /\ ui' = [ui EXCEPT !.channel.pending = @ - 1, !.loading = TRUE]
    /\ hist' = [hist EXCEPT !.owed = @ - 1]
    /\ UNCHANGED <<mounted, db>>

\* fetchData: one of its two reads returns: setPlanRows(planData || []), then
\* setActualRows(actualData || []); finally setLoading(false)
CashflowFetch(t, type) ==
    /\ mounted = "cashflow"
    /\ t.kind = "fetchData" /\ t.pc = type
    /\ \E outcome \in Outcomes :
        LET res == Response(outcome, CashflowSelect(db[TableOf(type)], t.year))
        IN /\ ui' = IF type = "plan" THEN [ui EXCEPT !.planRows = DataOrEmpty(res)]
                    ELSE [ui EXCEPT !.actualRows = DataOrEmpty(res), !.loading = FALSE]
           /\ hist' = [hist EXCEPT !.lost = @
                \/ (res.error /\ type = "plan" /\ ui'.planRows # ui.planRows
                        /\ ui.planRows = CashflowSelect(db[TableOf(type)], t.year))
                \/ (res.error /\ type = "actual" /\ ui'.actualRows # ui.actualRows
                        /\ ui.actualRows = CashflowSelect(db[TableOf(type)], t.year)),
                                   !.odd = @
                \/ (res.error /\ type = "plan" /\ ui'.planRows # <<>>)
                \/ (res.error /\ type = "actual" /\ ui'.actualRows # <<>>)]
    /\ tasks' = IF type = "plan" THEN ReplaceTask(t, [t EXCEPT !.pc = "actual"])
                ELSE DropTask(t)
    /\ UNCHANGED <<mounted, db>>

CashflowInit ==
    /\ mounted = "cashflow"
    /\ db = [cashflow_plan |-> {}, cashflow_actual |-> {}]
    /\ ui = [year |-> 2025, planRows |-> <<>>, actualRows |-> <<>>,
             form |-> [month |-> 1, planned |-> {}, actual |-> {}],
             editingMonth |-> {}, loading |-> TRUE, duplicateMonth |-> {},
             channel |-> [closure |-> {[year |-> 2025]}, pending |-> 0]]
    /\ tasks = SetToBag({[kind |-> "fetchData", pc |-> "plan", year |-> 2025]})
    /\ hist = [events |-> 0, remote |-> 0, silent |-> FALSE, changed |-> FALSE,
               lost |-> FALSE, odd |-> FALSE, owed |-> 0, sub |-> {},
               last |-> [type \in Types |-> [k \in CashflowYears \X Months |-> {}]]]

CashflowNext ==
    \/ \E y \in CashflowYears : CashflowSetYear(y)
    \/ \E m \in Months : CashflowSetField("month", m)
    \/ \E o \in Opt(Vals) : CashflowSetField("planned", o)
    \/ \E o \in Opt(Vals) : CashflowSetField("actual", o)
    \/ \E m \in Months : CashflowHandleEdit(m)
    \/ CashflowCancelEdit
    \/ CashflowModalEdit
    \/ CashflowModalCancel
    \/ CashflowHandleSubmit
    \/ \E t \in Inflight, type \in Types : CashflowUpsert(t, type)
    \/ \E t \in Inflight, type \in Types : CashflowFetch(t, type)
    \/ CashflowRealtime
    \/ \E v \in RemoteVals : RemoteUpsert("plan", <<2025, 1>>, v)
    \/ RemoteDelete("actual", <<2025, 1>>)

(***************************************************************************)
(* The record pages: CriticalIssuesPage ("issues", manpower/page.tsx),     *)
(* HindrancesPage ("hindrances", hindrances-inputs/page.tsx),              *)
(* SteelStockPage ("steel"), ApprovalPage ("approval"), DrawingsPage       *)
(* ("drawings"), NonNegotiablesPage ("nonneg") and the two versions of     *)
(* FinishDatesPage in README.md ("finish_v1", "finish").  Each keeps the   *)
(* loaded records, a form, an editing target and a pending delete.  A row  *)
(* is [id, scope, data]: its primary key (id or sr_no), the tab or         *)
(* category its loader filters on, and its other columns.                  *)
(***************************************************************************)
Crud == {"issues", "hindrances", "steel", "approval", "drawings", "nonneg",
         "finish_v1", "finish"}
\* the pages with an isSubmitting flag, and those with a loading flag
FlagPages == {"issues", "finish"}
LoadingPages == {"issues", "drawings", "finish"}

\* String.prototype.trim on the texts of the model
Trim(s) == IF s = " " THEN "" ELSE s

\* the initial formData / form of the mounted page (and resetForm, setForm({}))
InitForm ==
    CASE mounted = "issues" ->
            [issue_description |-> "", category |-> "", customCategory |-> ""]
      [] mounted = "hindrances" -> [sr_no |-> {}, item_particulars |-> "", content |-> ""]
      [] mounted = "steel" -> [dia |-> ""]
      [] mounted \in {"approval", "drawings"} -> [description |-> ""]
      [] mounted = "nonneg" -> [tower |-> "", task_description |-> ""]
      [] mounted = "finish_v1" ->
            [tower |-> "", planned_finish |-> "d", projected_finish |-> "d"]
      [] mounted = "finish" ->
            [tower |-> "", planned_finish |-> "d", projected_finish |-> "d",
             finish_variance_days |-> {0}]

\* what the user can put into a field
FieldValues(field) ==
    CASE field = "sr_no" -> Opt({1})
      [] field = "finish_variance_days" -> Opt({0})
      [] field = "issue_description" -> {"", " ", "a"}
      [] field = "category" -> {"", "Labour", "Other"}
      [] field \in {"planned_finish", "projected_finish"} -> {"", "d"}
      [] OTHER -> {"", "a"}

\* the number inputs of the forms, and an input without a value
NumberFields == {"sr_no", "finish_variance_days"}
Blank(field, v) == IF field \in NumberFields THEN v = {} ELSE v = ""

\* the `required` attributes of the inputs: the browser runs onSubmit only
\* when every required input has a value
RequiredOk(form, tab) ==
    CASE mounted = "issues" -> form.issue_description # ""
      [] mounted = "hindrances" ->
            /\ ~Blank("sr_no", form.sr_no)
            /\ IF tab = "Other Inputs" THEN form.content # ""
               ELSE form.item_particulars # ""
      [] mounted = "steel" -> form.dia # ""
      [] mounted = "approval" -> TRUE
      [] mounted = "drawings" -> form.description # ""
      [] mounted = "nonneg" -> form.tower # "" /\ form.task_description # ""
      [] OTHER -> \A f \in DOMAIN form : ~Blank(f, form[f])

\* the checks handleSubmit makes before it writes
ValidAlways(form) == TRUE
Valid(form) ==
    CASE mounted = "issues" ->
            /\ Trim(form.issue_description) # ""
            /\ form.category # ""
            /\ form.category = "Other" => Trim(form.customCategory) # ""
      [] mounted = "steel" -> form.dia # ""
      [] mounted = "nonneg" -> form.tower # "" /\ form.task_description # ""
      [] mounted \in {"finish_v1", "finish"} ->
            \A f \in DOMAIN form : ~Blank(f, form[f])
      [] OTHER -> TRUE

\* the payload handleSubmit sends for the form
Payload(form, tab, op) ==
    CASE mounted = "issues" ->
            [issue_description |-> Trim(form.issue_description),
             category |-> IF form.category = "Other"
                          THEN Trim(form.customCategory) ELSE Trim(form.category)]
      [] mounted = "hindrances" ->
            IF tab = "Other Inputs" THEN [sr_no |-> form.sr_no, content |-> form.content]
            ELSE [sr_no |-> form.sr_no, item_particulars |-> form.item_particulars]
      [] mounted = "approval" ->
            [description |-> IF op = "insert" /\ form.description = ""
                             THEN "No description" ELSE form.description]
      [] OTHER -> form

\* the form handleEdit fills from a record
FormOf(row) ==
    IF mounted = "issues"
    THEN LET known == row.data.category \in {"Labour", "Other"}
         IN [issue_description |-> row.data.issue_description,
             category |-> IF known THEN row.data.category ELSE "Other",
             customCategory |-> IF known THEN "" ELSE row.data.category]
    ELSE [f \in DOMAIN InitForm |->
            IF f \in DOMAIN row.data THEN row.data[f] ELSE InitForm[f]]

\* the scope the loader of the page filters on
ScopeOf(tab) ==
    CASE mounted = "hindrances" -> tab
      [] mounted = "drawings" -> "Drawings"
      [] OTHER -> "all"

\* .select("*") with the page's filter, .order(key): critical issues come
\* newest first; the finish page orders by tower, and the towers of the model
\* are all equal, so its rows come in key order
CrudSelect(rows, scope) ==
    LET asc == OrderBy({r \in rows : r.scope = scope}, "id")
    IN IF mounted = "issues" THEN [i \in DOMAIN asc |-> asc[Len(asc) + 1 - i]] ELSE asc

\* .update(payload).eq(key, id): the columns of the payload replace the row's
UpdateInsertsRow(rows, scope, id, payload) ==
    rows \cup {[id |-> db.seq, scope |-> scope, data |-> payload]}
UpdateRow(rows, scope, id, payload) ==
    {IF r.id = id /\ r.scope = scope
     THEN [r EXCEPT !.data = [f \in DOMAIN @ \cup DOMAIN payload |->
                                IF f \in DOMAIN payload THEN payload[f] ELSE @[f]]]
     ELSE r : r \in rows}

\* .delete().eq(key, id)
DeleteEveryRow(rows, scope, id) == {}
DeleteRow(rows, scope, id) == {r \in rows : ~(r.id = id /\ r.scope = scope)}

\* a loader run starts beside the invocations `rest`: setLoading(true) on the
\* pages that have the flag.  `after` tells of the delete that started the
\* run, if one did: the key it asked to delete and whether it succeeded
StartFetch(u, rest, scope, after) ==
    /\ ui' = [u EXCEPT !.loading = mounted \in LoadingPages]
    /\ tasks' = rest (+) SetToBag({[kind |-> "fetch", scope |-> scope, after |-> after]})

\* if (error) { toast } else setRecords(data || [])
RowsAfterIgnoresError(res, rows) == DataOrEmpty(res)
RowsAfter(res, rows) == IF res.error THEN rows ELSE DataOrEmpty(res)

\* the loader's read returns: on an error the records stay as they are.
\* hist.odd: a read that returned an error changed the records
CrudFetchReturns(t) ==
    /\ mounted \in Crud /\ t.kind = "fetch"
    /\ \E outcome \in Outcomes :
        LET res == Response(outcome, CrudSelect(db.rows, t.scope))
        IN /\ ui' = [ui EXCEPT !.records = RowsAfter(res, @),
                               !.loading = FALSE]
           /\ hist' = [hist EXCEPT
                !.lost = @ \/ (res.error /\ ui'.records # ui.records
                                  /\ ui.records = CrudSelect(db.rows, t.scope)),
                !.odd = @ \/ (res.error /\ ui'.records # ui.records),
                !.reload = IF t.after = {} THEN @
                           ELSE {[id |-> Val(t.after).id,
                                  deleted |-> Val(t.after).deleted,
                                  ok |-> ~res.error,
                                  has |-> \E i \in DOMAIN ui'.records :
                                            ui'.records[i].id = Val(t.after).id]}]
    /\ tasks' = DropTask(t)
    /\ UNCHANGED <<mounted, db>>

\* the dialog of the pending delete is shown
DialogOpen == ui.showDeleteModal
\* the buttons the page disables while isSubmitting
Enabled == ~ui.isSubmitting

\* handleChange / setForm on one input of the form; handleCategoryChange
\* drops the custom category unless "Other" is chosen
CrudSetField(field, v) ==
    /\ mounted \in Crud /\ CanAct /\ ~DialogOpen /\ Enabled
    /\ field \in DOMAIN ui.form /\ ui.form[field] # v
    /\ ui' = IF field = "category"
             THEN [ui EXCEPT !.form.category = v,
                             !.form.customCategory = IF v = "Other" THEN @ ELSE ""]
             ELSE [ui EXCEPT !.form[field] = v]
    /\ hist' = Tick
    /\ UNCHANGED <<mounted, db, tasks>>

\* handleEdit(rec): setEditing(rec); setFormData(...)
CrudHandleEdit(row) ==
    /\ mounted \in Crud /\ CanAct /\ ~DialogOpen /\ Enabled
    /\ ui' = [ui EXCEPT !.editing = {row}, !.form = FormOf(row)]
    /\ hist' = Tick
    /\ UNCHANGED <<mounted, db, tasks>>

\* resetForm / handleCancelEdit, the Cancel button shown while editing
CrudResetForm ==
    /\ mounted \in Crud \ {"approval", "hindrances"}
    /\ CanAct /\ ~DialogOpen /\ Enabled
    /\ ui.editing # {}
    /\ ui' = [ui EXCEPT !.editing = {}, !.form = InitForm]
    /\ hist' = Tick
    /\ UNCHANGED <<mounted, db, tasks>>

\* hindrances: setActiveTab(tab) and the effect on [activeTab]:
\* fetchData(); setEditingId(null); setForm({})
SetActiveTabCancelsReads(tab) ==
    /\ mounted = "hindrances" /\ CanAct /\ Room /\ ~DialogOpen
    /\ tab # ui.activeTab
    /\ StartFetch([ui EXCEPT !.activeTab = tab, !.editing = {}, !.form = InitForm],
                  [t \in {x \in Inflight : x.kind # "fetch"} |-> tasks[t]], tab, {})
    /\ hist' = Tick
    /\ UNCHANGED <<mounted, db>>
HindrancesSetActiveTab(tab) ==
    /\ mounted = "hindrances" /\ CanAct /\ Room /\ ~DialogOpen
    /\ tab # ui.activeTab
    /\ StartFetch([ui EXCEPT !.activeTab = tab, !.editing = {}, !.form = InitForm],
                  tasks, tab, {})
    /\ hist' = Tick
    /\ UNCHANGED <<mounted, db>>

\* handleSubmit up to its backend call: a form that fails the handler's checks
\* shows a toast and returns (setIsSubmitting(false) where it had been set)
CrudHandleSubmit ==
    /\ mounted \in Crud /\ CanAct /\ Room /\ ~DialogOpen /\ Enabled
    /\ RequiredOk(ui.form, ui.activeTab)
    /\ IF ~Valid(ui.form)
       THEN /\ ui' = [ui EXCEPT !.isSubmitting = FALSE]
            /\ UNCHANGED tasks
            /\ hist' = [Tick EXCEPT !.rejected = TRUE]
       ELSE /\ ui' = [ui EXCEPT !.isSubmitting = mounted \in FlagPages]
            /\ LET op == IF ui.editing = {} THEN "insert" ELSE "update"
               IN tasks' = AddTask(
                    [kind |-> "submit", op |-> op, form |-> ui.form,
                     tab |-> ui.activeTab, scope |-> ScopeOf(ui.activeTab),
                     payload |-> Payload(ui.form, ui.activeTab, op),
                     id |-> IF op = "update" THEN Val(ui.editing).id
                            ELSE IF mounted = "drawings"
                                 THEN (IF ui.records = <<>> THEN 1
                                       ELSE ui.records[Len(ui.records)].id + 1)
                                 ELSE 0])
            /\ hist' = Tick
    /\ UNCHANGED <<mounted, db>>

\* .insert([payload]): the table fills the columns the payload does not name
Inserted(payload) ==
    [f \in DOMAIN db.defaults \cup DOMAIN payload |->
        IF f \in DOMAIN payload THEN payload[f] ELSE db.defaults[f]]

\* history of handleSubmit invocation t: its write of key id has returned and
\* was applied (ok) or not
CrudReturned(h, t, id, ok) ==
    [h EXCEPT !.sub = {[op |-> t.op, id |-> id, ok |-> ok, turn |-> Turn(h)]}]

\* the insert or update returns.  An insert takes the next key of the table
\* (drawings: the sr_no the page sent, refused when a row has it)
CrudSubmitReturns(t) ==
    /\ mounted \in Crud /\ t.kind = "submit"
    /\ \E outcome \in Outcomes :
        LET id == IF t.id = 0 THEN db.seq ELSE t.id
            refused == t.op = "insert" /\ \E r \in db.rows : r.id = id
        IN IF outcome = "error" \/ refused
           THEN /\ ui' = AfterFailedWrite(ui)
                /\ tasks' = DropTask(t)
                /\ hist' = CrudReturned(hist, t, id, FALSE)
                /\ UNCHANGED db
           ELSE /\ db' = IF t.op = "update"
                         THEN [db EXCEPT !.rows = UpdateRow(@, t.scope, id, t.payload)]
                         ELSE [db EXCEPT
                                !.rows = @ \cup {[id |-> id, scope |-> t.scope,
                                                  data |-> Inserted(t.payload)]},
                                !.seq = IF id >= @ THEN id + 1 ELSE @]
                /\ hist' = CrudReturned(hist, t, id, TRUE)
                /\ StartFetch([ui EXCEPT
                                !.form = InitForm, !.isSubmitting = FALSE,
                                !.editing = IF t.op = "update"
                                               \/ mounted \notin {"approval", "drawings",
                                                                  "hindrances"}
                                            THEN {} ELSE @],
                              DropTask(t), t.scope, {})
    /\ UNCHANGED mounted

\* handleApproveReject(rec, status) of the approvals page up to its update
CrudApproveReject(row, status) ==
    /\ mounted = "approval" /\ CanAct /\ Room /\ ~DialogOpen
    /\ tasks' = AddTask([kind |-> "status", id |-> row.id, scope |-> row.scope,
                         payload |-> [status |-> {status}]])
    /\ hist' = Tick
    /\ UNCHANGED <<mounted, db, ui>>

\* handleToggleComplete(rec) of the non-negotiables page up to its update:
\* newStatus = !rec.is_completed, of the record as the page rendered it
CrudToggleSendsShown(row) ==
    /\ mounted = "nonneg" /\ CanAct /\ Room /\ ~DialogOpen
    /\ tasks' = AddTask([kind |-> "status", id |-> row.id, scope |-> row.scope,
                         payload |-> [is_completed |-> row.data.is_completed]])
    /\ hist' = Tick
    /\ UNCHANGED <<mounted, db, ui>>
CrudToggleComplete(row) ==
    /\ mounted = "nonneg" /\ CanAct /\ Room /\ ~DialogOpen
    /\ tasks' = AddTask([kind |-> "status", id |-> row.id, scope |-> row.scope,
                         payload |-> [is_completed |-> ~row.data.is_completed]])
    /\ hist' = Tick
    /\ UNCHANGED <<mounted, db, ui>>

\* .update({ status }).eq("sr_no", rec.sr_no) and .update({ is_completed:
\* newStatus }).eq("id", rec.id) return: on an error only the console or a
\* toast tells, else the loader runs
CrudStatusReturnsEveryRow(t) ==
    /\ mounted \in {"approval", "nonneg"} /\ t.kind = "status"
    /\ db' = [db EXCEPT !.rows = {[r EXCEPT !.data.status = t.payload.status] : r \in @}]
    /\ StartFetch(ui, DropTask(t), t.scope, {})
    /\ UNCHANGED <<mounted, hist>>
CrudStatusReturns(t) ==
    /\ mounted \in {"approval", "nonneg"} /\ t.kind = "status"
    /\ \E outcome \in Outcomes :
        IF outcome = "error"
        THEN /\ tasks' = DropTask(t)
             /\ UNCHANGED <<db, ui>>
        ELSE /\ db' = [db EXCEPT !.rows = UpdateRow(@, t.scope, t.id, t.payload)]
             /\ StartFetch(ui, DropTask(t), t.scope, {})
    /\ UNCHANGED <<mounted, hist>>

\* handleDeleteClick(rec) / setDeleteId(row.id)
CrudDeleteClick(row) ==
    /\ mounted \in Crud /\ CanAct /\ ~DialogOpen /\ Enabled
    /\ ui' = [ui EXCEPT !.recordToDelete = {row}, !.showDeleteModal = TRUE]
    /\ hist' = [Tick EXCEPT !.dialog = "clicked"]
    /\ UNCHANGED <<mounted, db, tasks>>

\* the buttons of the delete dialog answer a delete click and are not counted
\* as events.  cancelDelete / setDeleteId(null)
CancelKeepsPending(u) == u
CancelAlsoResets(u) ==
    [u EXCEPT !.showDeleteModal = FALSE, !.recordToDelete = {}, !.editing = {},
              !.form = InitForm]
CancelDeleteState(u) == [u EXCEPT !.showDeleteModal = FALSE, !.recordToDelete = {}]

CrudCancelDelete ==
    /\ mounted \in Crud /\ DialogOpen /\ Enabled
    /\ ui' = CancelDeleteState(ui)
    /\ hist' = [hist EXCEPT !.dialog = "cancelled"]
    /\ UNCHANGED <<mounted, db, tasks>>

\* <Dialog open={showDeleteModal} onOpenChange={setShowDeleteModal}>: Escape or
\* a click outside closes the dialog and keeps the record
CrudDismissDialog ==
    /\ mounted \in FlagPages /\ DialogOpen
    /\ ui' = [ui EXCEPT !.showDeleteModal = FALSE]
    /\ hist' = [hist EXCEPT !.dialog = "dismissed"]
    /\ UNCHANGED <<mounted, db, tasks>>

\* confirmDelete / handleDelete up to its backend call: if (!recordToDelete)
\* return; the finish page closes the dialog at once
CrudConfirmDelete ==
    /\ mounted \in Crud /\ Room /\ DialogOpen /\ Enabled
    /\ IF ui.recordToDelete = {}
       THEN UNCHANGED <<ui, tasks>>
       ELSE /\ ui' = [ui EXCEPT !.isSubmitting = mounted \in FlagPages,
                                !.showDeleteModal = @ /\ mounted # "finish"]
            /\ tasks' = AddTask([kind |-> "delete", id |-> Val(ui.recordToDelete).id,
                                 scope |-> ScopeOf(ui.activeTab),
                                 armed |-> hist.dialog = "clicked"])
    /\ UNCHANGED hist
    /\ UNCHANGED <<mounted, db>>

\* the delete returns.  hindrances: on success setDeleteId(null); fetchData(),
\* on an error only the toast; the other pages close the dialog, clear the
\* record and reload whatever the outcome
CrudDeleteReturns(t) ==
    /\ mounted \in Crud /\ t.kind = "delete"
    /\ \E outcome \in Outcomes :
        /\ db' = IF outcome = "ok"
                 THEN [db EXCEPT !.rows = DeleteRow(@, t.scope, t.id)] ELSE db
        /\ hist' = [hist EXCEPT
                !.dialog = IF mounted = "hindrances" /\ outcome = "error"
                           THEN @ ELSE "cleared",
                !.del = {[id |-> t.id, ok |-> outcome = "ok",
                          removed |-> db.rows \ db'.rows, added |-> db'.rows \ db.rows,
                          left |-> \E r \in db'.rows : r.id = t.id /\ r.scope = t.scope]}]
        /\ IF mounted = "hindrances" /\ outcome = "error"
           THEN /\ tasks' = DropTask(t)
                /\ UNCHANGED ui
           ELSE StartFetch([CancelDeleteState(ui) EXCEPT !.isSubmitting = FALSE],
                           DropTask(t), t.scope,
                           {[id |-> t.id, deleted |-> outcome = "ok"]})
    /\ UNCHANGED mounted

\* another client deletes a row
CrudRemoteDelete(row) ==
    /\ mounted \in Crud
    /\ hist.remote < MaxRemote
    /\ db' = [db EXCEPT !.rows = @ \ {row}]
    /\ hist' = [hist EXCEPT !.remote = @ + 1, !.sub = {}]
    /\ UNCHANGED <<mounted, ui, tasks>>

\* a form with every field filled, for the rows the tables hold at the start
FilledForm ==
    [f \in DOMAIN InitForm |->
        CHOOSE v \in FieldValues(f) :
            ~Blank(f, v) /\ (f \in NumberFields \/ v \notin {" ", "Other"})]

\* what table approvals can fill into column status, which the insert of
\* the page does not name
ColumnDefaults == [status : Opt({"Pending"})]
\* a stored row with the columns of the payload, and a status where the
\* column is modelled
StoredData(payload, defaults) ==
    [f \in DOMAIN defaults \cup DOMAIN payload |->
        IF f \in DOMAIN payload THEN payload[f] ELSE {"Pending"}]

\* the state after the first render and its effect: the table holds two rows
\* and the first loader run is in flight
CrudStart(defaults) ==
    /\ mounted \in Crud
    /\ db = [rows |-> {[id |-> i, scope |-> ScopeOf("Tower1"),
                        data |-> StoredData(Payload(FilledForm, "Tower1", "update"),
                                            defaults)] : i \in {1, 2}},
             seq |-> 3, defaults |-> defaults]
    /\ ui = [records |-> <<>>, form |-> InitForm, editing |-> {},
             showDeleteModal |-> FALSE, recordToDelete |-> {},
             isSubmitting |-> FALSE, loading |-> mounted \in LoadingPages,
             activeTab |-> "Tower1"]
    /\ tasks = SetToBag({[kind |-> "fetch", scope |-> ScopeOf("Tower1"), after |-> {}]})
    /\ hist = [events |-> 0, remote |-> 0, lost |-> FALSE, odd |-> FALSE,
               rejected |-> FALSE, sub |-> {},
               dialog |-> "none", del |-> {}, reload |-> {}]

\* the columns the pages name in every insert
CrudInit == CrudStart(<<>>)
\* the approvals page with column status, which approve and reject write
ApprovalInit == mounted = "approval" /\ \E defaults \in ColumnDefaults : CrudStart(defaults)

\* the rows on the screen, the rows of the table and the inputs of the form
Shown == IF mounted \in Crud THEN {ui.records[i] : i \in DOMAIN ui.records} ELSE {}
Stored == IF mounted \in Crud THEN db.rows ELSE {}
Inputs == IF mounted \in Crud THEN DOMAIN ui.form ELSE {}

CrudNext ==
    \/ \E f \in Inputs : \E v \in FieldValues(f) : CrudSetField(f, v)
    \/ \E row \in Shown : CrudHandleEdit(row)
    \/ CrudResetForm
    \/ \E tab \in {"Tower1", "Other Inputs"} : HindrancesSetActiveTab(tab)
    \/ CrudHandleSubmit
    \/ \E row \in Shown : CrudDeleteClick(row)
    \/ CrudCancelDelete
    \/ CrudDismissDialog
    \/ CrudConfirmDelete
    \/ \E t \in Inflight : CrudFetchReturns(t)
    \/ \E t \in Inflight : CrudSubmitReturns(t)
    \/ \E t \in Inflight : CrudDeleteReturns(t)
    \/ \E row \in Stored : CrudRemoteDelete(row)

\* another client inserts a row into project_records, a record of category
\* "Drawings" or one of the categories of the page's select ("Approval"):
\* the row takes the next free sr_no
CrudRemoteInsert(category) ==
    /\ mounted = "drawings"
    /\ hist.remote < MaxRemote
    /\ db' = [db EXCEPT !.rows = @ \cup {[id |-> db.seq, scope |-> category,
                                          data |-> Payload(FilledForm, "Tower1", "insert")]},
                        !.seq = @ + 1]
    /\ hist' = [hist EXCEPT !.remote = @ + 1, !.sub = {}]
    /\ UNCHANGED <<mounted, ui, tasks>>

\* the drawings page over a project_records that holds a record of another
\* category as well: record 1 is of category "Drawings", record 2 of category
\* "Approval", which the category select of the page offers
DrawingsInit ==
    /\ mounted = "drawings"
    /\ db = [rows |-> {[id |-> 1, scope |-> "Drawings",
                        data |-> Payload(FilledForm, "Tower1", "update")],
                       [id |-> 2, scope |-> "Approval",
                        data |-> Payload(FilledForm, "Tower1", "update")]},
             seq |-> 3, defaults |-> <<>>]
    /\ ui = [records |-> <<>>, form |-> InitForm, editing |-> {},
             showDeleteModal |-> FALSE, recordToDelete |-> {},
             isSubmitting |-> FALSE, loading |-> TRUE, activeTab |-> "Tower1"]
    /\ tasks = SetToBag({[kind |-> "fetch", scope |-> "Drawings", after |-> {}]})
    /\ hist = [events |-> 0, remote |-> 0, lost |-> FALSE, odd |-> FALSE,
               rejected |-> FALSE, sub |-> {},
               dialog |-> "none", del |-> {}, reload |-> {}]

DrawingsNext ==
    \/ \E f \in Inputs : \E v \in FieldValues(f) : CrudSetField(f, v)
    \/ \E row \in Shown : CrudHandleEdit(row)
    \/ CrudHandleSubmit
    \/ \E row \in Shown : CrudDeleteClick(row)
    \/ CrudCancelDelete
    \/ CrudConfirmDelete
    \/ \E t \in Inflight : CrudFetchReturns(t)
    \/ \E t \in Inflight : CrudSubmitReturns(t)
    \/ \E t \in Inflight : CrudDeleteReturns(t)
    \/ \E category \in {"Drawings", "Approval"} : CrudRemoteInsert(category)

\* the non-negotiables page over a table of two records with the same
\* completed flag; the first loader run is in flight
NonNegInit ==
    /\ mounted = "nonneg"
    /\ \E done \in BOOLEAN :
        db = [rows |-> {[id |-> i, scope |-> "all",
                         data |-> [tower |-> FilledForm.tower,
                                   task_description |-> FilledForm.task_description,
                                   is_completed |-> done]] : i \in {1, 2}},
              seq |-> 3, defaults |-> [is_completed |-> FALSE]]
    /\ ui = [records |-> <<>>, form |-> InitForm, editing |-> {},
             showDeleteModal |-> FALSE, recordToDelete |-> {},
             isSubmitting |-> FALSE, loading |-> FALSE, activeTab |-> "Tower1"]
    /\ tasks = SetToBag({[kind |-> "fetch", scope |-> "all", after |-> {}]})
    /\ hist = [events |-> 0, remote |-> 0, lost |-> FALSE, odd |-> FALSE,
               rejected |-> FALSE, sub |-> {},
               dialog |-> "none", del |-> {}, reload |-> {}]

NonNegNext ==
    \/ \E row \in Shown : CrudToggleComplete(row)
    \/ \E row \in Shown : CrudDeleteClick(row)
    \/ CrudCancelDelete
    \/ CrudConfirmDelete
    \/ \E t \in Inflight : CrudFetchReturns(t)
    \/ \E t \in Inflight : CrudStatusReturns(t)
    \/ \E t \in Inflight : CrudDeleteReturns(t)

\* the critical issues page after its first load, over two stored issues
\* whose category is of the predefined list ("Labour"), a custom one ("a"),
\* the literal "Other", or none ("", which handleEdit reads as
\* issue.category || "")
IssuesEditInit ==
    /\ mounted = "issues"
    /\ \E c1, c2 \in {"Labour", "a", "Other", ""} :
        db = [rows |-> {[id |-> 1, scope |-> "all",
                         data |-> [issue_description |-> "a", category |-> c1]],
                        [id |-> 2, scope |-> "all",
                         data |-> [issue_description |-> "a", category |-> c2]]},
              seq |-> 3, defaults |-> <<>>]
    /\ ui = [records |-> CrudSelect(db.rows, "all"), form |-> InitForm, editing |-> {},
             showDeleteModal |-> FALSE, recordToDelete |-> {},
             isSubmitting |-> FALSE, loading |-> FALSE, activeTab |-> "Tower1"]
    /\ tasks = EmptyBag
    /\ hist = [events |-> 0, remote |-> 0, lost |-> FALSE, odd |-> FALSE,
               rejected |-> FALSE, sub |-> {},
               dialog |-> "none", del |-> {}, reload |-> {}]

IssuesEditNext ==
    \/ \E f \in Inputs : \E v \in FieldValues(f) : CrudSetField(f, v)
    \/ \E row \in Shown : CrudHandleEdit(row)
    \/ CrudHandleSubmit
    \/ \E t \in Inflight : CrudFetchReturns(t)
    \/ \E t \in Inflight : CrudSubmitReturns(t)

ApprovalNext ==
    \/ \E f \in Inputs : \E v \in FieldValues(f) : CrudSetField(f, v)
    \/ \E row \in Shown : CrudHandleEdit(row)
    \/ CrudHandleSubmit
    \/ \E row \in Shown : CrudDeleteClick(row)
    \/ CrudCancelDelete
    \/ CrudConfirmDelete
    \/ \E row \in Shown : \E status \in {"Approved", "Rejected"} :
          CrudApproveReject(row, status)
    \/ \E t \in Inflight : CrudFetchReturns(t)
    \/ \E t \in Inflight : CrudSubmitReturns(t)
    \/ \E t \in Inflight : CrudDeleteReturns(t)
    \/ \E t \in Inflight : CrudStatusReturns(t)
    \/ \E row \in Stored : CrudRemoteDelete(row)

(***************************************************************************)
(* The totals of a year, applied to rows drawn from bounded sets: the      *)
(* concrete loader's totalsArr and the cashflow page's rowData.            *)
(***************************************************************************)
PlanVals == {{}, {5}, {10}}
ActualVals == {{}, {6}, {8}}

\* the tables of at most MaxRows rows with one row per conflict key
TablesOf(keys, type, vals) ==
    {S \in SUBSET {RowOf(k, type, v) : k \in keys, v \in vals} :
        /\ Cardinality(S) <= MaxRows
        /\ \A r, s \in S : KeyOf(r) = KeyOf(s) => r = s}

\* the cells of the Year Total row of the summary table:
\* fmt(allTotals.at(-1)?.field), where fmt shows a missing value as 0
YearTotalRow(allTotals) ==
    [f \in {"monthlyPlanned", "monthlyActual", "planned", "actual"} |->
        LET v == IF allTotals = <<>> THEN {} ELSE {allTotals[Len(allTotals)][f]}
        IN IF v = {} THEN 0 ELSE Val(v)]

TotalsInit ==
    /\ mounted \in {"totalsArr", "rowData"}
    /\ \E keys \in {IF mounted = "totalsArr" THEN WeeklyKeys ELSE {2025} \X Months} :
         db \in [plan : TablesOf(keys, "plan", PlanVals),
                 actual : TablesOf(keys, "actual", ActualVals)]
    /\ ui = [computed |-> FALSE, allTotals |-> <<>>, rowData |-> <<>>,
             yearTotal |-> YearTotalRow(<<>>)]
    /\ tasks = EmptyBag
    /\ hist = [events |-> 0]

\* setAllTotals(totalsArr) on the rows the yearly reads returned, and the
\* Year Total row of the render that follows
ComputeTotalsArr ==
    /\ mounted = "totalsArr" /\ ~ui.computed
    /\ LET totalsArr == TotalsArr(SelectYear(db.plan, 2025, "T1"),
                                  SelectYear(db.actual, 2025, "T1"))
       IN ui' = [ui EXCEPT !.computed = TRUE, !.allTotals = totalsArr,
                           !.yearTotal = YearTotalRow(totalsArr)]
    /\ UNCHANGED <<mounted, db, tasks, hist>>

\* useMemo(() => ..., [planRows, actualRows]) on the rows fetchData stored
ComputeRowData ==
    /\ mounted = "rowData" /\ ~ui.computed
    /\ ui' = [ui EXCEPT !.computed = TRUE,
                        !.rowData = RowData(CashflowSelect(db.plan, 2025),
                                            CashflowSelect(db.actual, 2025))]
    /\ UNCHANGED <<mounted, db, tasks, hist>>

TotalsNext == ComputeTotalsArr \/ ComputeRowData
SpecTotals == TotalsInit /\ [][TotalsNext]_vars

(***************************************************************************)
(* The finish-date variance: table tower_finish_dates as the first         *)
(* FinishDatesPage of README.md ("finish_v1") loads, shows and writes it,  *)
(* and as the second FinishDatesPage ("finish") and the dashboard load and *)
(* show it.                                                                *)
(* A date string "yyyy-MM-dd" is the number of its day in one month.       *)
(***************************************************************************)
MaxDay == 2          \* the days a finish date can fall on
Dates == 1..MaxDay
\* what column finish_variance_days can hold
StoredVariances == {-1, 0, 1}

\* new Date("yyyy-MM-dd"): the midnight that begins the day
NewDate(s) == [day |-> s, time |-> 0]
\* date-fns: the full days from the earlier moment to the later one, the
\* calendar days between them less the last day when it is not complete
differenceInDays(later, earlier) ==
    LET CompareAsc(a, b) ==
            IF a.day # b.day THEN (IF a.day > b.day THEN 1 ELSE -1)
            ELSE IF a.time # b.time THEN (IF a.time > b.time THEN 1 ELSE -1)
            ELSE 0
        Abs(n) == IF n < 0 THEN -n ELSE n
        sign == CompareAsc(later, earlier)
        difference == Abs(later.day - earlier.day)
        moved == [later EXCEPT !.day = @ - sign * difference]
        isLastDayNotFull == IF CompareAsc(moved, earlier) = -sign THEN 1 ELSE 0
    IN sign * (difference - isLastDayNotFull)

calculateVarianceSwapped(planned, projected) ==
    differenceInDays(NewDate(planned), NewDate(projected))
calculateVariance(planned, projected) ==
    differenceInDays(NewDate(projected), NewDate(planned))

getVarianceClassZeroIsBehind(version, variance) ==
    CASE version = "finish_v1" ->
            IF variance > 0 THEN "text-red-600 font-bold"
            ELSE IF variance < 0 THEN "text-green-600 font-bold"
            ELSE "text-gray-600"
      [] version = "finish" ->
            IF variance >= 0 THEN "bg-red-100 text-red-700 font-bold"
            ELSE IF variance < 0 THEN "bg-green-100 text-green-700 font-bold"
            ELSE "bg-blue-100 text-blue-700 font-bold"
      [] version = "dashboard" ->
            IF variance > 0 THEN "text-red-700 bg-red-100 font-bold px-2 py-1 rounded"
            ELSE IF variance < 0
                 THEN "text-green-700 bg-green-100 font-bold px-2 py-1 rounded"
            ELSE "text-gray-700 bg-gray-100 font-medium px-2 py-1 rounded"
getVarianceClass(version, variance) ==
    CASE version = "finish_v1" ->
            IF variance > 0 THEN "text-red-600 font-bold"
            ELSE IF variance < 0 THEN "text-green-600 font-bold"
            ELSE "text-gray-600"
      [] version = "finish" ->
            IF variance > 0 THEN "bg-red-100 text-red-700 font-bold"
            ELSE IF variance < 0 THEN "bg-green-100 text-green-700 font-bold"
            ELSE "bg-blue-100 text-blue-700 font-bold"
      [] version = "dashboard" ->
            IF variance > 0 THEN "text-red-700 bg-red-100 font-bold px-2 py-1 rounded"
            ELSE IF variance < 0
                 THEN "text-green-700 bg-green-100 font-bold px-2 py-1 rounded"
            ELSE "text-gray-700 bg-gray-100 font-medium px-2 py-1 rounded"

\* the colour each version gives a schedule: red behind, green ahead, and
\* gray or blue on schedule
VarianceStyle(version) ==
    CASE version = "finish_v1" ->
            [behind |-> "text-red-600 font-bold", ahead |-> "text-green-600 font-bold",
             on |-> "text-gray-600"]
      [] version = "finish" ->
            [behind |-> "bg-red-100 text-red-700 font-bold",
             ahead |-> "bg-green-100 text-green-700 font-bold",
             on |-> "bg-blue-100 text-blue-700 font-bold"]
      [] version = "dashboard" ->
            [behind |-> "text-red-700 bg-red-100 font-bold px-2 py-1 rounded",
             ahead |-> "text-green-700 bg-green-100 font-bold px-2 py-1 rounded",
             on |-> "text-gray-700 bg-gray-100 font-medium px-2 py-1 rounded"]

\* the records the loader of a version stores for the rows it read
ProcessedRecords(version, rows) ==
    IF version = "finish_v1"
    THEN {[r EXCEPT !.finish_variance_days =
                calculateVariance(r.planned_finish, r.projected_finish)] : r \in rows}
    ELSE rows

\* the cells of the variance column the page renders for its records
VarianceCells(version, records) ==
    {[id |-> r.id, variance |-> r.finish_variance_days,
      class |-> getVarianceClass(version, r.finish_variance_days)] : r \in records}

\* fetchRecords / the dashboard's fetchData return: on an error the pages keep
\* their records and the dashboard shows none
VarianceFetch ==
    /\ mounted = "variance"
    /\ \E outcome \in Outcomes :
        LET res == Response(outcome, db.rows)
            records == IF res.isNull
                       THEN IF ui.version = "dashboard" THEN {} ELSE ui.records
                       ELSE ProcessedRecords(ui.version, res.data)
        IN ui' = [ui EXCEPT !.records = records,
                            !.cells = VarianceCells(ui.version, records)]
    /\ hist' = [hist EXCEPT !.written = {}]
    /\ UNCHANGED <<mounted, db, tasks>>

\* the row after an update with the columns of the payload
Patched(r, payload) == [c \in DOMAIN r |-> IF c \in DOMAIN payload THEN payload[c] ELSE r[c]]

\* handleSubmit of the first FinishDatesPage with a filled form, and its write:
\* an update of the edited row, or an insert that leaves the columns the
\* payload does not name to the default of the table
VarianceHandleSubmit(form, editing) ==
    /\ mounted = "variance" /\ ui.version = "finish_v1"
    /\ hist.events < MaxEvents
    /\ editing \subseteq {r.id : r \in ui.records}
    /\ editing = {} => Cardinality(db.rows) < MaxRows
    /\ LET payload == form
       IN /\ \E outcome \in Outcomes :
                db' = IF outcome = "error" THEN db
                      ELSE IF editing # {}
                      THEN [db EXCEPT !.rows =
                              {IF r.id = Val(editing) THEN Patched(r, payload) ELSE r
                                 : r \in @}]
                      ELSE [db EXCEPT !.seq = @ + 1, !.rows = @ \cup
                                {Patched([id |-> db.seq, planned_finish |-> 1,
                                          projected_finish |-> 1,
                                          finish_variance_days |-> db.default],
                                         payload)}]
          /\ hist' = [hist EXCEPT !.events = @ + 1, !.written = DOMAIN payload]
    /\ UNCHANGED <<mounted, ui, tasks>>

VarianceInit ==
    /\ mounted = "variance"
    /\ \E p, q \in Dates, s, default \in StoredVariances :
         db = [rows |-> {[id |-> 1, planned_finish |-> p, projected_finish |-> q,
                          finish_variance_days |-> s]},
               seq |-> 2, default |-> default]
    /\ \E version \in {"finish_v1", "finish", "dashboard"} : ui = [version |-> version, records |-> {}, cells |-> {}]
    /\ tasks = EmptyBag
    /\ hist = [events |-> 0, written |-> {}]

VarianceNext ==
    \/ VarianceFetch
    \/ \E form \in [planned_finish : Dates, projected_finish : Dates],
          editing \in Opt(1..MaxRows) : VarianceHandleSubmit(form, editing)
SpecVariance == VarianceInit /\ [][VarianceNext]_vars

(***************************************************************************)
(* AuthProvider of README.md around the routes "/dashboard" and            *)
(* "/auth/signin": its effect looks the session up once and subscribes to  *)
(* the session changes of the auth client; db.session is the session the   *)
(* auth client holds and ui.notices the changes it has yet to deliver.     *)
(***************************************************************************)
Sessions == Opt({"user"})

\* router.push("/auth/signin") when there is no session
PushNever(session, route) == route
PushWithoutSession(session, route) == IF session = {} THEN "/auth/signin" ELSE route

\* if (loading) return the spinner; return the provider around {children}
ChildrenRenderedWithSession == ~ui.loading /\ ui.session # {}
ChildrenRendered == ~ui.loading

\* hist.last tells of the call or callback that returned last, until the
\* next user event or change outside the page; its field `turn` tells two
\* returns that follow one another apart
AuthReturned(op, session, ok) ==
    {[op |-> op, session |-> session, ok |-> ok,
      turn |-> IF \E e \in hist.last : e.turn = 0 THEN 1 ELSE 0]}

\* getSession() of the effect returns: a lookup that fails has no session
AuthGetSessionReturns(t) ==
    /\ mounted = "auth" /\ t.kind = "getSession"
    /\ \E outcome \in Outcomes :
        LET session == IF outcome = "ok" THEN db.session ELSE {}
        IN /\ ui' = [ui EXCEPT !.session = session, !.loading = FALSE,
                               !.route = PushWithoutSession(session, @)]
           /\ hist' = [hist EXCEPT !.last = AuthReturned("getSession", session, outcome = "ok")]
    /\ tasks' = DropTask(t)
    /\ UNCHANGED <<mounted, db>>

\* the callback of onAuthStateChange runs for the oldest undelivered change
AuthStateChange ==
    /\ mounted = "auth" /\ ui.notices # <<>>
    /\ LET newSession == Head(ui.notices)
       IN /\ ui' = [ui EXCEPT !.session = newSession, !.notices = Tail(@),
                              !.route = PushWithoutSession(newSession, @)]
          /\ hist' = [hist EXCEPT !.last = AuthReturned("change", newSession, TRUE)]
    /\ UNCHANGED <<mounted, db, tasks>>

\* the Sign Out button of the dashboard layout, shown once loading is over
AuthSignOut ==
    /\ mounted = "auth" /\ ~ui.loading /\ ui.route = "/dashboard"
    /\ CanAct /\ Room
    /\ tasks' = AddTask([kind |-> "signOut"])
    /\ hist' = [hist EXCEPT !.events = @ + 1, !.last = {}]
    /\ UNCHANGED <<mounted, db, ui>>

\* supabase.auth.signOut() returns: a sign-out that succeeds ends the session
\* of the auth client, which tells its subscribers
AuthSignOutReturns(t) ==
    /\ mounted = "auth" /\ t.kind = "signOut"
    /\ \E outcome \in Outcomes :
        /\ db' = IF outcome = "ok" THEN [db EXCEPT !.session = {}] ELSE db
        /\ ui' = IF outcome = "ok"
                 THEN [ui EXCEPT !.route = "/auth/signin", !.notices = Append(@, {})]
                 ELSE ui
        /\ hist' = [hist EXCEPT !.last = AuthReturned("signOut", db'.session, outcome = "ok")]
    /\ tasks' = DropTask(t)
    /\ UNCHANGED mounted

\* handleSignIn of the sign-in page and its signInWithPassword call: a
\* sign-in that succeeds starts a session and goes to the dashboard
AuthHandleSignIn ==
    /\ mounted = "auth" /\ ~ui.loading /\ ui.route = "/auth/signin"
    /\ CanAct
    /\ \E outcome \in Outcomes :
        /\ db' = IF outcome = "ok" THEN [db EXCEPT !.session = {"user"}] ELSE db
        /\ ui' = IF outcome = "ok"
                 THEN [ui EXCEPT !.route = "/dashboard", !.notices = Append(@, {"user"})]
                 ELSE ui
    /\ hist' = [hist EXCEPT !.events = @ + 1, !.last = {}]
    /\ UNCHANGED <<mounted, tasks>>

\* the session ends or is renewed outside the page
AuthRemoteChange(session) ==
    /\ mounted = "auth" /\ hist.remote < MaxRemote
    /\ db' = [db EXCEPT !.session = session]
    /\ ui' = [ui EXCEPT !.notices = Append(@, session)]
    /\ hist' = [hist EXCEPT !.remote = @ + 1, !.last = {}]
    /\ UNCHANGED <<mounted, tasks>>

\* the state after the first render and its effect
AuthInit ==
    /\ mounted = "auth"
    /\ db \in [session : Sessions]
    /\ \E route \in {"/dashboard", "/auth/signin"} :
         ui = [session |-> {}, loading |-> TRUE, route |-> route, notices |-> <<>>]
    /\ tasks = SetToBag({[kind |-> "getSession"]})
    /\ hist = [events |-> 0, remote |-> 0, last |-> {}]

AuthNext ==
    \/ \E t \in Inflight : AuthGetSessionReturns(t)
    \/ AuthStateChange
    \/ AuthSignOut
    \/ \E t \in Inflight : AuthSignOutReturns(t)
    \/ AuthHandleSignIn
    \/ \E session \in Sessions : AuthRemoteChange(session)
SpecAuth == AuthInit /\ [][AuthNext]_vars

(***************************************************************************)
(* The concrete and cashflow pages from the moment handleEdit has loaded   *)
(* the stored row of week 1 of month 1 (cashflow: of month 1 of 2025) into *)
(* the form, when the user only changes the filter and submits.            *)
(***************************************************************************)
\* the key whose row handleEdit loaded into the form
EditedKey == IF mounted = "cashflow" THEN <<2025, 1>> ELSE <<2025, 1, 1, "T1">>

ConcreteEditingInit ==
    /\ mounted = "concrete"
    /\ db = [concrete_plan |-> {RowOf(EditedKey, "plan", {1}),
                               RowOf(<<2025, 2, 1, "T1">>, "plan", {2})},
             concrete_actual |-> {}]
    /\ ui = [year |-> 2025, month |-> 1, tower |-> "T1",
             planRows |-> SelectMonth(db.concrete_plan, 2025, 1, "T1"),
             actualRows |-> <<>>,
             allTotals |-> TotalsArr(SelectYear(db.concrete_plan, 2025, "T1"), <<>>),
             monthlyTotals |-> <<>>,
             form |-> [week |-> 1, planned |-> {1}, actual |-> {}],
             editingWeek |-> {1},
             loading |-> FALSE, isSubmitting |-> FALSE, duplicate |-> {},
             channel |-> [closure |-> WeeklyChannel(2025, 1, "T1"), pending |-> 0]]
    /\ tasks = EmptyBag
    /\ hist = [events |-> 0, remote |-> 0, silent |-> FALSE, changed |-> FALSE,
               lost |-> FALSE, odd |-> FALSE, owed |-> 0, sub |-> {},
               last |-> [type \in Types |-> [k \in WeeklyKeys |-> {}]]]

CashflowEditingInit ==
    /\ mounted = "cashflow"
    /\ db = [cashflow_plan |-> {RowOf(EditedKey, "plan", {1}),
                               RowOf(<<2026, 1>>, "plan", {2})},
             cashflow_actual |-> {}]
    /\ ui = [year |-> 2025, planRows |-> CashflowSelect(db.cashflow_plan, 2025),
             actualRows |-> <<>>,
             form |-> [month |-> 1, planned |-> {1}, actual |-> {}],
             editingMonth |-> {1}, loading |-> FALSE, duplicateMonth |-> {},
             channel |-> [closure |-> {[year |-> 2025]}, pending |-> 0]]
    /\ tasks = EmptyBag
    /\ hist = [events |-> 0, remote |-> 0, silent |-> FALSE, changed |-> FALSE,
               lost |-> FALSE, odd |-> FALSE, owed |-> 0, sub |-> {},
               last |-> [type \in Types |-> [k \in CashflowYears \X Months |-> {}]]]

EditingNext ==
    \/ \E m \in Months : WeeklySetMonth(m)
    \/ WeeklyHandleSubmit
    \/ \E t \in Inflight, type \in Types : WeeklyUpsert(t, type)
    \/ \E t \in Inflight : WeeklyFetchMonthly(t)
    \/ \E t \in Inflight : WeeklyFetchYearly(t)
    \/ WeeklyRealtime
    \/ \E y \in CashflowYears : CashflowSetYear(y)
    \/ CashflowHandleSubmit
    \/ \E t \in Inflight, type \in Types : CashflowUpsert(t, type)
    \/ \E t \in Inflight, type \in Types : CashflowFetch(t, type)
    \/ CashflowRealtime
EditingInit == ConcreteEditingInit \/ CashflowEditingInit
SpecEditing == EditingInit /\ [][EditingNext]_vars

(***************************************************************************)
(* Pagination of the tables: the two HindrancesPage components of          *)
(* planvsactual/page.tsx ("hindrances_v1", "hindrances"), CriticalIssuesPage *)
(* ("issues") and the second FinishDatesPage ("finish").  The rows a page  *)
(* has loaded matter by their number only; page size "all" is {}.          *)
(***************************************************************************)
MaxLoaded == 11      \* rows a page can have loaded

\* the options of the rows-per-page select; the critical issues page has
\* const itemsPerPage = 5 and no select
PageSizes(page) ==
    CASE page = "issues" -> {{5}}
      [] page = "finish" -> {{5}, {10}, {20}, {50}}
      [] OTHER -> {{10}, {20}, {50}, {}}

\* Math.ceil(rows.length / pageSize)
Ceil(n, d) == (n + d - 1) \div d
totalPages(u) == IF u.pageSize = {} THEN 1 ELSE Ceil(u.rows, Val(u.pageSize))

\* the Previous and Next buttons are rendered
ControlsShown(u) ==
    CASE u.page = "hindrances_v1" -> u.pageSize # {} /\ u.rows > 0
      [] u.page = "hindrances" -> u.pageSize # {}
      [] u.page = "issues" -> u.rows > Val(u.pageSize)
      [] u.page = "finish" -> u.rows > 0

Min(a, b) == IF a < b THEN a ELSE b
Max(a, b) == IF a > b THEN a ELSE b

\* onClick of Next, disabled={currentPage === totalPages}
PageNext ==
    /\ mounted = "pagination" /\ ControlsShown(ui)
    /\ ui.currentPage # totalPages(ui)
    /\ ui' = [ui EXCEPT !.currentPage = IF ui.page = "finish" THEN @ + 1
                                        ELSE Min(totalPages(ui), @ + 1)]
    /\ hist' = [hist EXCEPT !.last = "next"]
    /\ UNCHANGED <<mounted, db, tasks>>

\* onClick of Previous, disabled={currentPage === 1}
PagePrevious ==
    /\ mounted = "pagination" /\ ControlsShown(ui)
    /\ ui.currentPage # 1
    /\ ui' = [ui EXCEPT !.currentPage = IF ui.page = "finish" THEN @ - 1
                                        ELSE Max(1, @ - 1)]
    /\ hist' = [hist EXCEPT !.last = "previous"]
    /\ UNCHANGED <<mounted, db, tasks>>

\* onChange of the rows-per-page select: the first HindrancesPage and the
\* finish page also setCurrentPage(1)
SetPageSize(size) ==
    /\ mounted = "pagination" /\ ui.page # "issues"
    /\ ui.page = "finish" => ui.rows > 0
    /\ size \in PageSizes(ui.page) /\ size # ui.pageSize
    /\ ui' = [ui EXCEPT !.pageSize = size,
                        !.currentPage = IF ui.page = "hindrances" THEN @ ELSE 1]
    /\ hist' = [hist EXCEPT !.last = "size"]
    /\ UNCHANGED <<mounted, db, tasks>>

\* a tab of a HindrancesPage: the effect on [activeTab] runs fetchData() and
\* setCurrentPage(1); the rows of the tab arrive with RowsLoaded
PageSetActiveTab ==
    /\ mounted = "pagination" /\ ui.page \in {"hindrances_v1", "hindrances"}
    /\ ui.currentPage # 1
    /\ ui' = [ui EXCEPT !.currentPage = 1]
    /\ hist' = [hist EXCEPT !.last = "tab"]
    /\ UNCHANGED <<mounted, db, tasks>>

\* the loader stores n rows, after an insert, a delete or a tab change: the
\* critical issues page has an effect on [issues.length] and the finish page
\* one on [records] that setCurrentPage(1)
RowsLoaded(n) ==
    /\ mounted = "pagination" /\ n \in 0..MaxLoaded
    /\ n # ui.rows
    /\ ui' = [ui EXCEPT !.rows = n,
                        !.currentPage = IF ui.page \in {"issues", "finish"} THEN 1 ELSE @]
    /\ hist' = [hist EXCEPT !.last = "rows"]
    /\ UNCHANGED <<mounted, db, tasks>>

PaginationInit ==
    /\ mounted = "pagination"
    /\ db = <<>>
    /\ \E page \in {"hindrances_v1", "hindrances", "issues", "finish"} :
         ui = [page |-> page, rows |-> 0, currentPage |-> 1,
               pageSize |-> IF page = "issues" THEN {5} ELSE {10}]
    /\ tasks = EmptyBag
    /\ hist = [last |-> "mount"]

PaginationNext ==
    \/ PageNext
    \/ PagePrevious
    \/ \E size \in Opt({5, 10, 20, 50}) : SetPageSize(size)
    \/ PageSetActiveTab
    \/ \E n \in {ui.rows - 1, ui.rows + 1} : RowsLoaded(n)
SpecPagination == PaginationInit /\ [][PaginationNext]_vars

(***************************************************************************)
(* Properties.                                                             *)
(***************************************************************************)

\* the rows of the mounted page's plan or actual table with conflict key k
RowsAt(type, k) ==
    {r \in db[TableOf(type)] : <<r.year, r.month, r.week, r.tower>> = k}

\* C1: on the concrete page concrete_plan holds at most one row per
\* (year, month, week, tower) after any sequence of local and remote submits,
\* and that row is the row of the upsert last applied to the key
C1_NaturalKeyUnique ==
    mounted = "concrete" =>
        \A k \in WeeklyKeys :
            /\ Cardinality(RowsAt("plan", k)) <= 1
            /\ RowsAt("plan", k) = hist.last["plan"][k]
            /\ \A r \in RowsAt("plan", k) :
                    r.planned = Val(hist.last["plan"][k]).planned

\* a key was written twice with different values and holds one row
C1_Witness ==
    /\ mounted = "concrete" /\ hist.changed
    /\ \E k \in WeeklyKeys :
         /\ Cardinality(RowsAt("plan", k)) = 1
         /\ hist.last["plan"][k] # {}
         /\ hist.last["actual"][k] = {}

\* C2: on the concrete page a submit made with no editing week never reaches
\* an upsert when the backend held, at the time of its existence check, a
\* row of the submitted key in the table of a filled field
C2_DuplicateBlocksUpsert ==
    mounted = "concrete" =>
        \A t \in Inflight :
            (t.kind = "handleSubmit" /\ t.editing = {}
                /\ t.pc \in {"upsertPlan", "upsertActual"}) => t.held = {}

\* C3 as stated: on the concrete, manpower and cashflow pages no upsert of a
\* submit made with no editing target is applied over an existing row
C3_NoSilentOverwrite ==
    mounted \in {"concrete", "manpower", "cashflow"} => ~hist.silent

\* C3: on the concrete, manpower and cashflow pages a submit made with no
\* editing target has an upsert in flight only for a table in which its own
\* existence check found no row
C3_UpsertOnlyAfterClearCheck ==
    mounted \in {"concrete", "manpower", "cashflow"} =>
        \A t \in Inflight : \A type \in Types :
            (t.kind = "handleSubmit" /\ t.editing = {}
                /\ t.pc = StageOf("upsert", type)) => type \in t.clear

\* a submit with no editing week has its upsert in flight, its check having
\* found nothing, while the table holds a row another client wrote since
C3_Witness ==
    /\ mounted \in Weekly /\ hist.remote > 0
    /\ \E t \in Inflight : \E type \in Types :
         /\ t.kind = "handleSubmit" /\ t.editing = {}
         /\ t.pc = StageOf("upsert", type) /\ type \in t.clear
         /\ RowsAt(type, <<t.year, t.month, t.form.week, t.tower>>) # {}

\* the sum of a column over a set of rows, a missing value counting as 0
RECURSIVE SumOver(_, _)
SumOver(S, col) ==
    IF S = {} THEN 0
    ELSE LET r == CHOOSE x \in S : TRUE
         IN (IF r[col] = {} THEN 0 ELSE Val(r[col])) + SumOver(S \ {r}, col)

\* the plan and actual rows of the example: 10 and 5 planned, 8 and 6 actual
\* in months 1 and 2
ExampleRows ==
    /\ \A m \in 1..NumMonths :
         /\ SumOver({r \in db.plan : r.month = m}, "planned")
                = (IF m = 1 THEN 10 ELSE IF m = 2 THEN 5 ELSE 0)
         /\ SumOver({r \in db.actual : r.month = m}, "actual")
                = (IF m = 1 THEN 8 ELSE IF m = 2 THEN 6 ELSE 0)

\* C4: for every month m in 1..12 the cumulative planned (actual) value of the
\* concrete totals and of the cashflow rows is the sum of the planned (actual)
\* values of the rows of months 1..m, the monthly value is the sum over the
\* rows of month m, and the example rows give 15 and 14 after month 2
C4_CumulativeTotals ==
    ui.computed =>
        /\ mounted = "totalsArr" =>
            /\ Len(ui.allTotals) = NumMonths
            /\ \A m \in 1..NumMonths :
                /\ ui.allTotals[m].month = m
                /\ ui.allTotals[m].monthlyPlanned
                       = SumOver({r \in db.plan : r.month = m}, "planned")
                /\ ui.allTotals[m].monthlyActual
                       = SumOver({r \in db.actual : r.month = m}, "actual")
                /\ ui.allTotals[m].planned
                       = SumOver({r \in db.plan : r.month <= m}, "planned")
                /\ ui.allTotals[m].actual
                       = SumOver({r \in db.actual : r.month <= m}, "actual")
            /\ ui.allTotals[NumMonths].planned = SumOver(db.plan, "planned")
            /\ ui.allTotals[NumMonths].actual = SumOver(db.actual, "actual")
            /\ ExampleRows => /\ ui.allTotals[2].planned = 15
                              /\ ui.allTotals[2].actual = 14
        /\ mounted = "rowData" =>
            /\ Len(ui.rowData) = NumMonths
            /\ \A m \in 1..NumMonths :
                /\ ui.rowData[m].cumulativePlanned
                       = SumOver({r \in db.plan : r.month <= m}, "planned")
                /\ ui.rowData[m].cumulativeActual
                       = SumOver({r \in db.actual : r.month <= m}, "actual")
            /\ ExampleRows => /\ ui.rowData[2].cumulativePlanned = 15
                              /\ ui.rowData[2].cumulativeActual = 14

\* the totals of the example rows were computed
C4_Witness ==
    /\ mounted = "totalsArr" /\ ui.computed /\ ExampleRows
    /\ ui.allTotals[2].planned = 15 /\ ui.allTotals[2].actual = 14
    /\ ui.allTotals[NumMonths].planned = 15

\* C5 as stated: a confirmed delete removes exactly one row, the row with the
\* key of the pending record, changes no other row, and the record is not
\* among the records once the reload the confirm started has completed
C5_DeleteRemovesExactlyOne ==
    mounted \in {"issues", "hindrances", "steel"} =>
        /\ \A d \in hist.del :
             /\ Cardinality(d.removed) = 1 /\ d.added = {}
             /\ \A r \in d.removed : r.id = d.id
        /\ \A r \in hist.reload : ~r.has

\* C5: a delete that succeeds removes the row with the key of the pending
\* record if the table still holds it, and no other row; a delete that fails
\* removes nothing; no delete adds or changes a row; and when the delete
\* succeeded and the reload it started returns without an error, the record
\* is not among the page's records
C5_DeleteRemovesOnlyTheRecord ==
    mounted \in {"issues", "hindrances", "steel"} =>
        /\ \A d \in hist.del :
             /\ Cardinality(d.removed) <= 1 /\ d.added = {}
             /\ \A r \in d.removed : r.id = d.id
             /\ d.ok => ~d.left
             /\ ~d.ok => d.removed = {}
        /\ \A r \in hist.reload : (r.deleted /\ r.ok) => ~r.has

\* a delete removed its record and the reload it started has shown the rest
C5_Witness ==
    /\ mounted \in {"issues", "hindrances", "steel"}
    /\ \E d \in hist.del : d.ok /\ Cardinality(d.removed) = 1
    /\ \E r \in hist.reload : r.deleted /\ r.ok /\ ~r.has
    /\ Cardinality(db.rows) = 1 /\ Len(ui.records) = 1

\* C6: a delete click changes only the pending record and the dialog flag and
\* starts no request; every delete request in flight was started by a confirm
\* that followed a delete click with no cancel in between; and a confirm with
\* no pending record starts nothing
C6_DeleteNeedsConfirmation ==
    /\ [](mounted \in {"issues", "hindrances", "finish_v1"} =>
            \A t \in Inflight : t.kind = "delete" => t.armed)
    /\ [][(mounted \in {"issues", "hindrances", "finish_v1"}
             /\ \E row \in Shown : CrudDeleteClick(row))
          => /\ UNCHANGED <<db, tasks>>
             /\ ui'.recordToDelete # {} /\ ui'.showDeleteModal
             /\ ui' = [ui EXCEPT !.recordToDelete = ui'.recordToDelete,
                                 !.showDeleteModal = TRUE]]_vars
    /\ [][(mounted \in {"issues", "hindrances", "finish_v1"}
             /\ CrudConfirmDelete /\ ui.recordToDelete = {})
          => UNCHANGED <<db, tasks, ui>>]_vars

\* a delete request is in flight after a click and a confirm
C6_Witness ==
    /\ mounted \in {"issues", "hindrances", "finish_v1"}
    /\ \E t \in Inflight : t.kind = "delete" /\ t.armed
    /\ hist.dialog = "clicked"

\* C7: cancelling a pending delete clears the pending record and closes the
\* dialog, starts no request, and leaves the tables, the records, the form and
\* the editing target as they were
C7_CancelHasNoSideEffect ==
    [][(mounted \in {"issues", "approval", "hindrances"} /\ CrudCancelDelete)
       => /\ ui'.recordToDelete = {} /\ ~ui'.showDeleteModal
          /\ UNCHANGED <<db, tasks>>
          /\ ui'.records = ui.records /\ ui'.form = ui.form
          /\ ui'.editing = ui.editing]_vars

\* a pending delete was cancelled while a record was being edited
C7_Witness ==
    /\ mounted \in {"issues", "approval", "hindrances"}
    /\ hist.dialog = "cancelled" /\ ui.editing # {}
    /\ ui.recordToDelete = {} /\ ~ui.showDeleteModal
    /\ Cardinality(db.rows) = 2

\* the fields the hindrances, approvals and drawings forms must have filled
RequiredEmpty(form, tab) ==
    CASE mounted = "hindrances" ->
            IF tab = "Other Inputs" THEN form.content = ""
            ELSE form.sr_no = {} \/ form.item_particulars = ""
      [] mounted \in {"approval", "drawings"} -> form.description = ""
      [] OTHER -> FALSE

\* C8: on the hindrances, approvals and drawings pages no insert or update is
\* in flight for a form with a required field empty
C8_NoWriteWithRequiredEmpty ==
    mounted \in {"hindrances", "approval", "drawings"} =>
        \A t \in Inflight : t.kind = "submit" => ~RequiredEmpty(t.form, t.tab)

\* the mandatory fields of the critical-issues, finish-dates, non-negotiables
\* and steel-stock forms: one of them is empty
MandatoryEmpty(form) ==
    CASE mounted = "issues" ->
            form.issue_description \in {"", " "} \/ form.category = ""
      [] mounted = "finish" ->
            \/ form.tower = "" \/ form.planned_finish = ""
            \/ form.projected_finish = "" \/ form.finish_variance_days = {}
      [] mounted = "nonneg" -> form.tower = "" \/ form.task_description = ""
      [] mounted = "steel" -> form.dia = ""
      [] OTHER -> FALSE

\* C9: on the critical-issues, finish-dates, non-negotiables and steel-stock
\* pages a submit of a form with a mandatory field empty starts no request,
\* leaves the tables, the form, the editing target and the records unchanged
\* and ends with the submitting flag false
C9_InvalidSubmitWritesNothing ==
    [][(mounted \in {"issues", "finish", "nonneg", "steel"}
          /\ CrudHandleSubmit /\ MandatoryEmpty(ui.form))
       => /\ UNCHANGED <<db, tasks>>
          /\ ui'.form = ui.form /\ ui'.editing = ui.editing
          /\ ui'.records = ui.records
          /\ ~ui'.isSubmitting]_vars

\* a submit was refused and the form still has its mandatory field empty
C9_Witness ==
    /\ mounted \in {"issues", "finish", "nonneg", "steel"}
    /\ hist.rejected /\ MandatoryEmpty(ui.form)
    /\ ~ui.isSubmitting /\ db.seq = 3

\* C10 as stated: on the hindrances, concrete and cashflow pages no loader
\* read that returned an error has changed the row set it feeds (hist.lost: a
\* row set that held what the backend has for the query was changed by a
\* failed read)
C10_FailedReadKeepsRows ==
    mounted \in {"hindrances", "concrete", "cashflow"} => ~hist.lost

\* C10: a loader read that returned an error leaves the records of the
\* hindrances page as they were, and leaves the row set it feeds on the
\* concrete and cashflow pages empty, the concrete totals of a failed yearly
\* read being 0
C10_FailedReadKeepsOrEmpties ==
    mounted \in {"hindrances", "concrete", "cashflow"} => ~hist.odd

\* a failed read has emptied the actual rows of the concrete page while the
\* table holds a row of the selected month
C10_Witness ==
    /\ mounted = "concrete" /\ hist.lost
    /\ ui.actualRows = <<>>
    /\ \E r \in db["concrete_actual"] : r.month = ui.month

\* C11: on the concrete, manpower and cashflow pages every change of a row of
\* the selected year in the page's plan or actual table that has not yet been
\* followed by a run of the loader has a notification waiting to call the
\* loader
C11_EveryNotificationReloads ==
    mounted \in {"concrete", "manpower", "cashflow"} =>
        hist.owed <= ui.channel.pending

\* the same on the two pages that have a realtime effect
C11_SubscribedPagesReload ==
    mounted \in {"concrete", "cashflow"} => hist.owed = ui.channel.pending

\* the loader runs in flight: fetchData of the hindrances page, and fetchData
\* of the concrete page at its reads of the selected month
Reads == {t \in Inflight : t.kind \in {"fetch", "fetchData"}}

\* C12: on the hindrances and concrete pages a change of the filter (tab,
\* month) removes no read that is in flight, and a read that returns while
\* another filter is selected leaves the rows as they were or sets them to the
\* rows of the filter the read was started with
C12_ReadsAreNeverCancelled ==
    [][/\ (mounted = "hindrances" /\ ui'.activeTab # ui.activeTab)
            => \A t \in Reads : CopiesIn(t, tasks') >= CopiesIn(t, tasks)
       /\ (mounted = "concrete" /\ ui'.month # ui.month)
            => \A t \in Reads : CopiesIn(t, tasks') >= CopiesIn(t, tasks)
       /\ mounted = "hindrances"
            => \A t \in Reads :
                 (tasks' = DropTask(t) /\ t.scope # ScopeOf(ui.activeTab))
                    => ui'.records \in {ui.records, CrudSelect(db.rows, t.scope)}
       /\ mounted = "concrete"
            => \A t \in Reads :
                 (t.pc = "monthly" /\ tasks' = ReplaceTask(t, [t EXCEPT !.pc = "yearly"])
                    /\ t.month # ui.month)
                    => ui'.planRows \in {<<>>, SelectMonth(db[TableOf("plan")],
                                                          t.year, t.month, t.tower)}
      ]_vars

\* hindrances: no read is in flight and the records are the rows of a tab
\* other than the selected one, whose rows are others
C12_Witness ==
    /\ mounted = "hindrances" /\ Reads = {} /\ ui.records # <<>>
    /\ ui.records # CrudSelect(db.rows, ScopeOf(ui.activeTab))
    /\ \E tab \in {"Tower1", "Other Inputs"} :
         tab # ui.activeTab /\ ui.records = CrudSelect(db.rows, ScopeOf(tab))

\* concrete: no read is in flight and the plan rows are those of a month other
\* than the selected one, whose rows are others
C12_WitnessConcrete ==
    /\ mounted = "concrete" /\ Reads = {} /\ ui.planRows # <<>>
    /\ ui.planRows # SelectMonth(db[TableOf("plan")], ui.year, ui.month, ui.tower)
    /\ \E m \in Months :
         m # ui.month
         /\ ui.planRows = SelectMonth(db[TableOf("plan")], ui.year, m, ui.tower)

\* C13: on the record pages a submit made with an editing target starts one
\* backend call, an update whose key is the key of the editing target; when
\* that call returns no row has been added or removed, no key has been handed
\* out, and every row with another key or of another table is as it was
C13_EditSubmitUpdatesOneRow ==
    [][(mounted \in Crud) => (
        /\ \A u \in BagToSet(tasks') :
              (u.kind = "submit" /\ CopiesIn(u, tasks') > CopiesIn(u, tasks)
                    /\ ui.editing # {})
                => /\ u.op = "update" /\ u.id = Val(ui.editing).id
                   /\ BagCardinality(tasks') = BagCardinality(tasks) + 1
                   /\ db' = db
        /\ \A t \in Inflight :
              (t.kind = "submit" /\ t.op = "update"
                    /\ CopiesIn(t, tasks') < CopiesIn(t, tasks))
                => /\ Cardinality(db'.rows) = Cardinality(db.rows)
                   /\ {r.id : r \in db'.rows} = {r.id : r \in db.rows}
                   /\ db'.seq = db.seq
                   /\ \A r \in db.rows :
                         (r.id # t.id \/ r.scope # t.scope) => r \in db'.rows)
      ]_vars

\* the update of a submit made with an editing target has been applied to the
\* row of that key
C13_Witness ==
    /\ mounted \in {"hindrances", "issues", "steel"}
    /\ \E s \in hist.sub : s.op = "update" /\ s.ok /\ \E r \in db.rows : r.id = s.id

\* the step is the return of a submit whose writes have all succeeded
SubmitSucceeds == hist'.sub # hist.sub /\ \E s \in hist'.sub : s.ok
\* the invocations of kind `kind` that the step ends or moves on
Leaving(kind) ==
    {t \in Inflight : t.kind = kind /\ CopiesIn(t, tasks') < CopiesIn(t, tasks)}
\* the invocations of kind `kind` that the step starts
Starting(kind) ==
    {t \in BagToSet(tasks') : t.kind = kind /\ CopiesIn(t, tasks') > CopiesIn(t, tasks)}
\* nothing is in flight and no notification is waiting
Quiet ==
    /\ tasks = EmptyBag
    /\ mounted = "concrete" => ui.channel.pending = 0
\* the rows on the page are the rows the backend holds for the selected filter
RowsCurrent ==
    IF mounted = "concrete"
    THEN /\ ui.planRows = SelectMonth(db[TableOf("plan")], ui.year, ui.month, ui.tower)
         /\ ui.actualRows = SelectMonth(db[TableOf("actual")], ui.year, ui.month,
                                        ui.tower)
    ELSE ui.records = CrudSelect(db.rows, ScopeOf(ui.activeTab))

\* C14 as stated: on the concrete, hindrances and finish-dates pages the
\* return of a submit whose writes all succeeded clears the editing target,
\* resets the form and starts a loader run; and once nothing is in flight, with
\* no user event and no change by another client since, the rows on the page
\* are the rows the backend holds for the selected filter
C14_SubmitSettles ==
    /\ [][(mounted \in {"concrete", "hindrances", "finish"} /\ SubmitSucceeds)
            => /\ IF mounted = "concrete"
                  THEN ui'.editingWeek = {} /\ ui'.form = WeeklyInitForm
                       /\ Starting("fetchData") # {}
                  ELSE ui'.editing = {} /\ ui'.form = InitForm
                       /\ Starting("fetch") # {}]_vars
    /\ []((mounted \in {"concrete", "hindrances", "finish"}
            /\ (\E s \in hist.sub : s.ok) /\ Quiet) => RowsCurrent)

\* C14: on the concrete, hindrances and finish-dates pages the return of a
\* submit whose writes all succeeded resets the form, clears the editing
\* target (hindrances: if the submit was made with one) and starts a loader
\* run for the filter the submit was made with; and a loader run that returns
\* sets the rows to the rows the backend holds for the filter the run was
\* started with, or, when its read returned an error, leaves them as they
\* were (concrete: empties them)
C14_SubmitResetsAndReloads ==
    [][/\ (mounted = "concrete" /\ SubmitSucceeds)
            => /\ ui'.editingWeek = {} /\ ui'.form = WeeklyInitForm
               /\ \A t \in Leaving("handleSubmit") :
                     FetchTask(t.year, t.month, t.tower) \in Starting("fetchData")
               /\ Leaving("handleSubmit") = {}
                     => FetchTask(ui.year, ui.month, ui.tower) \in Starting("fetchData")
       /\ (mounted \in {"hindrances", "finish"} /\ SubmitSucceeds)
            => /\ ui'.form = InitForm
               /\ \A t \in Leaving("submit") :
                     /\ (t.op = "update" \/ mounted = "finish") => ui'.editing = {}
                     /\ \E f \in Starting("fetch") : f.scope = t.scope
               /\ Leaving("submit") # {}
       /\ mounted = "concrete"
            => \A t \in Leaving("fetchData") :
                 t.pc = "monthly"
                    => /\ ui'.planRows \in {<<>>, SelectMonth(db[TableOf("plan")],
                                                    t.year, t.month, t.tower)}
                       /\ ui'.actualRows \in {<<>>, SelectMonth(db[TableOf("actual")],
                                                    t.year, t.month, t.tower)}
       /\ mounted \in {"hindrances", "finish"}
            => \A t \in Leaving("fetch") :
                 ui'.records \in {ui.records, CrudSelect(db.rows, t.scope)}
      ]_vars

\* concrete: a submit has succeeded, its reload has returned and nothing is in
\* flight; the form is reset and the rows on the page, with the submitted
\* week among them, are the rows the backend holds for the selected month
C14_Witness ==
    /\ mounted = "concrete" /\ (\E s \in hist.sub : s.ok) /\ Quiet
    /\ ui.form = WeeklyInitForm /\ ui.editingWeek = {}
    /\ RowsCurrent /\ ui.planRows # <<>>
    /\ \E i \in DOMAIN ui.planRows : ui.planRows[i].planned \in {{v} : v \in Vals}

\* the step is the return of a submit one of whose writes returned an error
SubmitFails == hist'.sub # hist.sub /\ \E s \in hist'.sub : ~s.ok

\* C15: on the concrete, hindrances and non-negotiables pages the return of a
\* submit whose write returned an error leaves the form and the editing
\* target as they were, and they are those of the submit if they were when
\* the write returned
C15_FailedWriteKeepsForm ==
    [][/\ (mounted = "concrete" /\ SubmitFails)
            => /\ ui'.form = ui.form /\ ui'.editingWeek = ui.editingWeek
               /\ \A t \in Leaving("handleSubmit") :
                     (ui.form = t.form /\ ui.editingWeek = t.editing)
                        => (ui'.form = t.form /\ ui'.editingWeek = t.editing)
               /\ Leaving("handleSubmit") # {}
       /\ (mounted \in {"hindrances", "nonneg"} /\ SubmitFails)
            => /\ ui'.form = ui.form /\ ui'.editing = ui.editing
               /\ \A t \in Leaving("submit") :
                     ui.form = t.form => ui'.form = t.form
               /\ Leaving("submit") # {}
      ]_vars

\* concrete: a write of a submit has returned an error and the form still
\* holds the value that was submitted
C15_Witness ==
    /\ mounted = "concrete" /\ (\E s \in hist.sub : ~s.ok)
    /\ tasks = EmptyBag /\ ui.form.planned # {}

\* C16: on the concrete page a handleSubmit invocation is suspended at one
\* backend call at a time and moves through its calls in order; it comes to
\* its upsert of concrete_actual, when a planned value was submitted, only in
\* the step in which its upsert of concrete_plan returns applied; a loader run
\* is started by it only in the step in which its last write returns applied;
\* and the step in which its plan upsert returns an error ends the invocation
\* with no write, no further call and no loader run
C16_SubmitCallsAreSequential ==
    [][(mounted = "concrete") => (
        /\ \A t \in Leaving("handleSubmit") :
              /\ Cardinality(Starting("handleSubmit")) <= 1
              /\ \A u \in Starting("handleSubmit") :
                    /\ u.form = t.form /\ u.editing = t.editing
                    /\ StageIndex(u.pc) > StageIndex(t.pc)
              /\ Starting("fetchData") # {}
                    => /\ SubmitSucceeds /\ Starting("handleSubmit") = {}
                       /\ t.pc = (IF t.form.actual # {} THEN "upsertActual"
                                  ELSE "upsertPlan")
              /\ (t.pc = "upsertPlan" /\ SubmitFails)
                    => /\ Starting("handleSubmit") = {} /\ Starting("fetchData") = {}
                       /\ db' = db
        /\ \A u \in Starting("handleSubmit") :
              (u.pc = "upsertActual" /\ u.form.planned # {})
                => \E t \in Leaving("handleSubmit") :
                     /\ t.pc = "upsertPlan" /\ ~SubmitFails
                     /\ RowOf(<<t.year, t.month, t.form.week, t.tower>>, "plan",
                              t.form.planned) \in db'[TableOf("plan")])
      ]_vars

\* a submit of a planned and an actual value has written both tables, plan
\* first, and its loader run is in flight
C16_Witness ==
    /\ mounted = "concrete" /\ (\E s \in hist.sub : s.ok)
    /\ \E t \in Inflight : t.kind = "fetchData"
    /\ \E v \in Vals :
         /\ RowOf(<<2025, 1, 1, "T1">>, "plan", {v}) \in db[TableOf("plan")]
         /\ RowOf(<<2025, 1, 1, "T1">>, "actual", {v}) \in db[TableOf("actual")]

\* C17: every variance cell a version renders has the behind-schedule style
\* of that version exactly when the variance is above 0, the ahead-of-schedule
\* style exactly when it is below 0 and the on-schedule style exactly when it
\* is 0, so the three styles differ and all versions classify alike
C17_VarianceClassFollowsSign ==
    mounted = "variance" =>
        \A c \in ui.cells :
            {k \in DOMAIN VarianceStyle(ui.version) :
                VarianceStyle(ui.version)[k] = c.class}
              = {IF c.variance > 0 THEN "behind"
                 ELSE IF c.variance < 0 THEN "ahead" ELSE "on"}
C17_Witness ==
    /\ mounted = "variance" /\ ui.version = "finish"
    /\ \E c \in ui.cells : c.variance = 0 /\ c.class = "bg-blue-100 text-blue-700 font-bold"

C18_NoSessionRedirects ==
    [][(mounted = "auth" /\ hist'.last # hist.last) =>
        \A e \in hist'.last :
            /\ (e.op \in {"getSession", "change"} /\ e.session = {})
                  => ui'.route = "/auth/signin"
            /\ (e.op = "signOut" /\ e.ok) => ui'.route = "/auth/signin"]_vars
C18_Witness ==
    /\ mounted = "auth" /\ ui.route = "/auth/signin"
    /\ \E e \in hist.last : e.op = "change" /\ e.session = {}
    /\ hist.events > 0

\* C19: on the approvals page every row of the table has a status among
\* Pending, Approved and Rejected, and a row that an insert adds has Pending
C19_StatusIsKnown ==
    /\ [](mounted = "approval" =>
            \A r \in db.rows : r.data.status \in {{"Pending"}, {"Approved"}, {"Rejected"}})
    /\ [][mounted = "approval" =>
            \A r \in db'.rows :
                (\A s \in db.rows : s.id # r.id) => r.data.status = {"Pending"}]_vars

\* C21: on the concrete page every loader run that a realtime notification
\* starts queries the year, month and tower that are selected when it starts
C21_RealtimeReloadsSelection ==
    [][(mounted = "concrete" /\ ui'.channel.pending < ui.channel.pending) =>
        \E t \in BagToSet(tasks') :
            /\ CopiesIn(t, tasks') > CopiesIn(t, tasks)
            /\ t.kind = "fetchData"
            /\ t.year = ui.year /\ t.month = ui.month /\ t.tower = ui.tower]_vars

\* C22: the Year Total row of the concrete summary table shows in its
\* Planned (Month) and Actual (Month) cells the sums of the planned and the
\* actual values of the year, which are the cumulative values of the same row
C22_YearTotalIsYearSum ==
    (mounted = "totalsArr" /\ ui.computed) =>
        /\ ui.yearTotal.monthlyPlanned = SumOver(db.plan, "planned")
        /\ ui.yearTotal.monthlyActual = SumOver(db.actual, "actual")
        /\ ui.yearTotal.monthlyPlanned = ui.yearTotal.planned
        /\ ui.yearTotal.monthlyActual = ui.yearTotal.actual

\* C23: on the concrete and cashflow pages every row a submit writes while an
\* editing target is set has the key whose stored values handleEdit loaded
\* into the form, whatever the filter has been changed to since
C23_EditSubmitWritesEditedKey ==
    [][(mounted \in {"concrete", "cashflow"}) =>
        (\A type \in Types :
            \A r \in db'[TableOf(type)] \ db[TableOf(type)] : KeyOf(r) = EditedKey)]_vars

\* C24: on every paginated page, whenever the page size is a number, the
\* current page is at least 1 and at most the larger of 1 and the number of
\* pages the loaded rows fill
C24_CurrentPageInRange ==
    (mounted = "pagination" /\ ui.pageSize # {}) =>
        /\ 1 <= ui.currentPage
        /\ ui.currentPage <= Max(1, Ceil(ui.rows, Val(ui.pageSize)))

\* C25: the sr_no the drawings page sends with an insert is not the sr_no of
\* a row that project_records holds when the insert is sent, whatever the
\* category of that row and whoever inserted it
C25_SentSrNoIsFresh ==
    [][(mounted = "drawings") =>
        (\A t \in BagToSet(tasks') :
            (t.kind = "submit" /\ t.op = "insert" /\ CopiesIn(t, tasks') > CopiesIn(t, tasks))
                => ~\E r \in db.rows : r.id = t.id)]_vars

\* C26: on the approvals page a step in which the update of an approve or a
\* reject returns changes at most the status of the row it names, a step in
\* which the update of an edit returns changes at most the other columns of
\* the row it names, every other row stays as it is, and the status of a
\* row changes in no other step
C26_ApprovalsFrame ==
    [][(mounted = "approval") =>
        /\ \A t \in BagToSet(tasks) :
            (CopiesIn(t, tasks') < CopiesIn(t, tasks)
             /\ (t.kind = "status" \/ (t.kind = "submit" /\ t.op = "update"))) =>
                /\ \A r \in db.rows : r.id # t.id => r \in db'.rows
                /\ \A s \in db'.rows : s.id # t.id => s \in db.rows
                /\ \A r \in db.rows : \A s \in db'.rows : (r.id = t.id /\ s.id = t.id) =>
                      \A f \in DOMAIN r.data :
                          (f = "status") # (t.kind = "status") => s.data[f] = r.data[f]
        /\ \A r \in db.rows : \A s \in db'.rows :
            (r.id = s.id /\ r.data.status # s.data.status) =>
                \E t \in BagToSet(tasks) :
                    /\ CopiesIn(t, tasks') < CopiesIn(t, tasks)
                    /\ t.kind = "status" /\ t.id = r.id /\ s.data.status = t.payload.status]_vars
\* one of the two rows has been approved or rejected and the other is as it was
C26_Witness ==
    /\ mounted = "approval"
    /\ \E r \in db.rows : \E s \in db.rows :
        /\ r.id # s.id
        /\ r.data.status \in {{"Approved"}, {"Rejected"}}
        /\ s.data = StoredData(Payload(FilledForm, "Tower1", "update"), db.defaults)

C28_LoadingIffLoaderInFlight ==
    (mounted = "concrete") =>
        (ui.loading <=> \E t \in BagToSet(tasks) : t.kind = "fetchData")

\* C29 as stated: AuthProvider renders its children only while it holds a
\* session
C29_ChildrenOnlyWithSession ==
    (mounted = "auth" /\ ChildrenRendered) => ui.session # {}
\* C29 amended: AuthProvider renders its children exactly when the first
\* session lookup has returned, never while it is pending
C29_ChildrenOnceLookedUp ==
    (mounted = "auth") =>
        (ChildrenRendered <=> ~\E t \in BagToSet(tasks) : t.kind = "getSession")
\* the lookup has returned without a session and the children are rendered
C29_Witness ==
    /\ mounted = "auth"
    /\ ChildrenRendered /\ ui.session = {}
    /\ \E e \in hist.last : e.op = "getSession" /\ e.session = {}

\* C30: on the critical issues page the form that handleEdit fills from a
\* stored issue passes the checks of handleSubmit as it is and yields the
\* category of the issue, and the submit of that form sends one update for
\* the id of the issue with that category
C30_EditRoundTrip ==
    /\ []((mounted = "issues" /\ ui.editing # {} /\ ui.form = FormOf(Val(ui.editing))) =>
            /\ RequiredOk(ui.form, ui.activeTab) /\ Valid(ui.form)
            /\ Payload(ui.form, ui.activeTab, "update").category
                  = Val(ui.editing).data.category)
    /\ [][(mounted = "issues" /\ ui.editing # {} /\ ui.form = FormOf(Val(ui.editing))) =>
            (\A t \in BagToSet(tasks') :
                (t.kind = "submit" /\ CopiesIn(t, tasks') > CopiesIn(t, tasks)) =>
                    /\ CopiesIn(t, tasks') = CopiesIn(t, tasks) + 1
                    /\ t.op = "update" /\ t.id = Val(ui.editing).id
                    /\ t.payload.category = Val(ui.editing).data.category)]_vars

(***************************************************************************)
(* The program: one of the pages is mounted.                               *)
(***************************************************************************)
Init == WeeklyInit \/ CashflowInit \/ CrudInit
Next == WeeklyNext \/ CashflowNext \/ CrudNext
Spec == Init /\ [][Next]_vars

\* the concrete page from the moment the form holds both values of a week,
\* when the user only submits
SpecConcreteSubmit == ConcreteFilledInit /\ [][ConcreteSubmitNext]_vars

\* the approvals page over a table with column status
SpecApprovals == ApprovalInit /\ [][ApprovalNext]_vars

\* the drawings page over a table that holds records of other categories too
SpecDrawings == DrawingsInit /\ [][DrawingsNext]_vars

\* the non-negotiables page when the user toggles and deletes records
SpecNonNeg == NonNegInit /\ [][NonNegNext]_vars

\* the critical issues page when the user edits and submits stored issues
SpecIssuesEdit == IssuesEditInit /\ [][IssuesEditNext]_vars

====
